---- MODULE Spec2Model ----
(***************************************************************************)
(* Scheduling core of tessera: the dependency-graph TaskQueue, the         *)
(* AgentPool and the MultiAgentExecutor control loop                       *)
(* (src/src/tessera/workflow/multi_agent_executor.py).                     *)
(*                                                                         *)
(* workflow/task_queue.py, workflow/agent_pool.py and                      *)
(* observability/metrics.py are not part of the source tree at hand: their *)
(* operations are modelled from the design text and from the behaviour the *)
(* unit tests pin down (tests/test_task_queue_extended.py,                 *)
(* tests/test_agent_pool_extended.py, tests/test_async_executor.py).       *)
(***************************************************************************)
EXTENDS Integers, Sequences, FiniteSets, TLC

\* ------------------------------------------------------------------ bounds
\* Largest number of subtasks in an exhaustively enumerated decomposition.
NumTasks == 3
\* Largest total number of dependency edges in such a decomposition.
MaxEdges == 2
\* Largest number of subtasks in an exhaustively enumerated decomposition
\* when the queue is driven by arbitrary calls.
QueueTasks == 2
\* Largest max_parallel / max_concurrent tried.
MaxParallel == 2
\* Calls of execute_task_async a caller makes on its own, per task id.
MaxDirectCalls == 1
\* Largest max_iterations tried.
MaxIterations == 3

\* ------------------------------------------------------- values and helpers
\* A dependency id that no decomposition ever registers.
Ghost == 0

\* TaskStatus members.
PENDING == "pending"
IN_PROGRESS == "in_progress"
COMPLETED == "completed"
FAILED == "failed"

\* agent_name = "supervisor" in execute_with_semaphore.
SupervisorName == "supervisor"

None == "None"

\* No call of execute_task_async is awaited for a task id.
NoCall == [agent_name |-> None, state |-> "none"]

\* A timestamp that has been taken (datetime.now()): only whether a time is
\* recorded is kept, not its value.
Now == "set"

Range(s) == {s[i] : i \in DOMAIN s}

\* Python's seq[:n]: the first n elements, all of them when n >= len, and for a
\* negative n everything but the last -n elements (none when -n >= len).
Take(s, n) ==
    IF n >= Len(s) THEN s
    ELSE IF n >= 0 THEN SubSeq(s, 1, n)
    ELSE IF Len(s) + n > 0 THEN SubSeq(s, 1, Len(s) + n)
    ELSE <<>>

RECURSIVE SelectIds(_, _)
\* [x for x in s if x in keep], order kept.
SelectIds(s, keep) ==
    IF s = <<>> THEN <<>>
    ELSE IF Head(s) \in keep THEN <<Head(s)>> \o SelectIds(Tail(s), keep)
         ELSE SelectIds(Tail(s), keep)

\* ------------------------------------------------------------- TaskQueue
\* A queue is [tasks : id -> QueuedTask, order : the dict's insertion order].
EmptyQueue == [tasks |-> <<>>, order |-> <<>>]

QueuedTask(id, deps) ==
    [task_id |-> id, dependencies |-> deps, status |-> PENDING,
     assigned_to |-> None, result |-> None, error |-> None,
     started_at |-> None, completed_at |-> None]

QHas(q, id) == id \in Range(q.order)

\* add_task: registers a Pending task; a duplicate id is rejected.
add_task_ok(q, id) == ~QHas(q, id)
add_task(q, id, deps) ==
    [tasks |-> [i \in Range(q.order) \cup {id} |->
                    IF i = id THEN QueuedTask(id, deps) ELSE q.tasks[i]],
     order |-> Append(q.order, id)]

\* A dependency is satisfied iff it names a registered, Completed task.
DepsCompletedLenient(q, id) ==
    \A d \in q.tasks[id].dependencies :
        QHas(q, d) => q.tasks[d].status \in {COMPLETED, FAILED}
DepsCompleted(q, id) ==
    \A d \in q.tasks[id].dependencies :
        QHas(q, d) /\ q.tasks[d].status = COMPLETED

\* get_ready_tasks: Pending tasks with every dependency Completed, in
\* insertion order.
get_ready_tasks_reversed(q) ==
    SelectIds([k \in 1..Len(q.order) |-> q.order[Len(q.order) + 1 - k]],
              {i \in Range(q.order) :
                  q.tasks[i].status = PENDING /\ DepsCompleted(q, i)})
get_ready_tasks(q) ==
    SelectIds(q.order, {i \in Range(q.order) :
                           q.tasks[i].status = PENDING /\ DepsCompleted(q, i)})

\* mark_in_progress: Pending -> InProgress, records the worker.
mark_in_progress_ok(q, id) == QHas(q, id) /\ q.tasks[id].status = PENDING
mark_in_progress(q, id, agent) ==
    [q EXCEPT !.tasks[id].status = IN_PROGRESS, !.tasks[id].assigned_to = agent,
              !.tasks[id].started_at = Now]

\* mark_complete / mark_failed: record the outcome. The unit tests call both
\* on tasks that were never marked in progress and expect the transition
\* (test_mark_failed, test_is_complete_true, test_complex_dependency_chain),
\* so only a task that already reached a terminal status is rejected.
mark_terminal_ok_any(q, id) == QHas(q, id)
mark_terminal_ok(q, id) ==
    QHas(q, id) /\ q.tasks[id].status \in {PENDING, IN_PROGRESS}
mark_complete(q, id, res) ==
    [q EXCEPT !.tasks[id].status = COMPLETED, !.tasks[id].result = res,
              !.tasks[id].completed_at = Now]
mark_failed(q, id, err) ==
    [q EXCEPT !.tasks[id].status = FAILED, !.tasks[id].error = err,
              !.tasks[id].completed_at = Now]

\* is_complete: every task is Completed.
is_complete_terminal(q) ==
    \A i \in Range(q.order) : q.tasks[i].status \in {COMPLETED, FAILED}
is_complete(q) == \A i \in Range(q.order) : q.tasks[i].status = COMPLETED

CountStatus(q, s) == Cardinality({i \in Range(q.order) : q.tasks[i].status = s})

\* A Pending task one of whose dependency ids names no task of the queue.
IsBlocked(q, id) ==
    /\ q.tasks[id].status = PENDING
    /\ \E d \in q.tasks[id].dependencies : ~QHas(q, d)

\* get_status_summary: the number of tasks per bucket. A blocked task is
\* reported in the "blocked" bucket and in no other.
PendingBucketByStatus(q) == CountStatus(q, PENDING)
PendingBucket(q) ==
    Cardinality({i \in Range(q.order) :
                    q.tasks[i].status = PENDING /\ ~IsBlocked(q, i)})
get_status_summary(q) ==
    [total |-> Len(q.order),
     pending |-> PendingBucket(q),
     in_progress |-> CountStatus(q, IN_PROGRESS),
     completed |-> CountStatus(q, COMPLETED),
     failed |-> CountStatus(q, FAILED),
     blocked |-> Cardinality({i \in Range(q.order) : IsBlocked(q, i)})]

\* ------------------------------------------------------------- AgentPool
\* A pool maps each worker name of the roster to its AgentInstance.
AgentInstance == [current_task |-> None, tasks_completed |-> 0, tasks_failed |-> 0]

AgentPool(roster) == [a \in roster |-> AgentInstance]

\* mark_task_complete: clears the assignment and counts the outcome. The
\* executor tests run with an empty roster and the name "supervisor", and
\* expect no error: a name outside the roster changes nothing.
mark_task_complete_keep(pool, name, success) ==
    IF name \in DOMAIN pool
    THEN [pool EXCEPT ![name] =
            [current_task |-> @.current_task,
             tasks_completed |-> @.tasks_completed + (IF success THEN 1 ELSE 0),
             tasks_failed |-> @.tasks_failed + (IF success THEN 0 ELSE 1)]]
    ELSE pool
mark_task_complete(pool, name, success) ==
    IF name \in DOMAIN pool
    THEN [pool EXCEPT ![name] =
            [current_task |-> None,
             tasks_completed |-> @.tasks_completed + (IF success THEN 1 ELSE 0),
             tasks_failed |-> @.tasks_failed + (IF success THEN 0 ELSE 1)]]
    ELSE pool

\* An agent config of the roster: AgentDefinition(name, capabilities).
AgentDefinition(name, capabilities) == [name |-> name, capabilities |-> capabilities]

\* AgentPool(configs): one AgentInstance per config, under the config's name.
PoolOf(configs) == AgentPool({configs[i].name : i \in DOMAIN configs})

\* get_available_agents: the workers with no assignment, by name.
get_available_agents(pool) == {a \in DOMAIN pool : pool[a].current_task = None}

\* assign_task_to_agent succeeds for a worker of the roster that has no
\* assignment, and fails otherwise.
assign_ok_known(pool, name) == name \in DOMAIN pool
assign_ok(pool, name) == name \in get_available_agents(pool)
assign_task_to_agent(pool, task_id, name) ==
    IF assign_ok(pool, name)
    THEN [pool EXCEPT ![name].current_task = task_id]
    ELSE pool

\* The score of the i-th config for the required capabilities: the number
\* of them it declares, then completed / (completed + failed + 1). Ratios are
\* compared by cross-multiplication.
Overlap(configs, i, required) == Cardinality(configs[i].capabilities \cap required)
ScoreAbove(pool, configs, required, i, j) ==
    LET a == pool[configs[i].name]
        b == pool[configs[j].name]
    IN \/ Overlap(configs, i, required) > Overlap(configs, j, required)
       \/ /\ Overlap(configs, i, required) = Overlap(configs, j, required)
          /\ a.tasks_completed * (b.tasks_completed + b.tasks_failed + 1)
                 > b.tasks_completed * (a.tasks_completed + a.tasks_failed + 1)
Eligible(pool, configs, required, i) ==
    /\ configs[i].name \in get_available_agents(pool)
    /\ Overlap(configs, i, required) > 0

\* The scan over the roster in declaration order: best is the index of the
\* best worker so far, 0 while there is none.
RECURSIVE BestFromLast(_, _, _, _, _)
BestFromLast(pool, configs, required, i, best) ==
    IF i > Len(configs) THEN best
    ELSE BestFromLast(pool, configs, required, i + 1,
            IF /\ Eligible(pool, configs, required, i)
               /\ (best = 0 \/ ~ScoreAbove(pool, configs, required, best, i))
            THEN i ELSE best)
RECURSIVE BestFrom(_, _, _, _, _)
BestFrom(pool, configs, required, i, best) ==
    IF i > Len(configs) THEN best
    ELSE BestFrom(pool, configs, required, i + 1,
            IF /\ Eligible(pool, configs, required, i)
               /\ (best = 0 \/ ScoreAbove(pool, configs, required, i, best))
            THEN i ELSE best)

\* find_best_agent(required_capabilities): the name found, or None.
find_best_agent_last(pool, configs, required) ==
    LET best == BestFromLast(pool, configs, required, 1, 0)
    IN IF best = 0 THEN None ELSE configs[best].name
find_best_agent(pool, configs, required) ==
    LET best == BestFrom(pool, configs, required, 1, 0)
    IN IF best = 0 THEN None ELSE configs[best].name

\* The pool after find_best_agent. The specification states what the call
\* returns and, unlike for assign_task_to_agent and mark_task_complete, no
\* change of the pool.
PoolAfterFind(pool, configs, required) == pool

\* get_pool_status: total / available / busy.
get_pool_status(pool) ==
    [total |-> Cardinality(DOMAIN pool),
     available |-> Cardinality(get_available_agents(pool)),
     busy |-> Cardinality(DOMAIN pool \ get_available_agents(pool))]

\* ------------------------------------------------------ decompositions
\* decompose(objective): a list of subtasks [task_id, dependencies].
SubTask(id, deps) == [task_id |-> id, dependencies |-> deps]

\* Every decomposition of n subtasks 1..n whose dependencies are drawn from
\* 0..n (0 names no task) with at most MaxEdges edges: chains, forks, joins,
\* cycles, self-dependencies and unresolved ids.
EdgeSets(n) ==
    {E \in SUBSET ((1..n) \X (0..n)) : Cardinality(E) <= MaxEdges}
GraphOf(n, E) == [i \in 1..n |-> SubTask(i, {d \in 0..n : <<i, d>> \in E})]
GraphsUpTo(m) == UNION {{GraphOf(n, E) : E \in EdgeSets(n)} : n \in 0..m}
SmallGraphs == GraphsUpTo(NumTasks)

\* Scenario A of the design text: {A:[], B:[A], C:[A], D:[B,C]}.
ScenarioA == <<SubTask(1, {}), SubTask(2, {1}), SubTask(3, {1}), SubTask(4, {2, 3})>>
\* Scenario B: five independent tasks.
ScenarioB == [i \in 1..5 |-> SubTask(i, {})]
\* Scenario E: every task depends on an id that is never registered.
ScenarioE == [i \in 1..3 |-> SubTask(i, {Ghost})]

\* The chain of test_complex_dependency_chain: task3 -> task2 -> task1.
TestChain == <<SubTask(1, {}), SubTask(2, {1}), SubTask(3, {2})>>

\* Ids that are not registered in increasing order.
Shuffled == <<SubTask(3, {}), SubTask(1, {3}), SubTask(2, {})>>

\* A dependency on a task registered later, and one on an id never registered.
Forward == <<SubTask(1, {2}), SubTask(2, {}), SubTask(3, {Ghost})>>

Scenarios == {ScenarioA, ScenarioB, ScenarioE, TestChain, Shuffled, Forward}

\* Decompositions that break the interface rule of unique ids.
DuplicateDecompositions ==
    {<<SubTask(1, {}), SubTask(1, {})>>,
     <<SubTask(1, {}), SubTask(2, {1}), SubTask(1, {2})>>,
     <<SubTask(2, {}), SubTask(1, {}), SubTask(2, {1})>>}

Decompositions == SmallGraphs \cup Scenarios
\* The queue called on its own: the five independent tasks of ScenarioB add
\* nothing to it that the four of ScenarioA do not.
QueueDecompositions == GraphsUpTo(QueueTasks) \cup (Scenarios \ {ScenarioB})

\* The lists handed directly to execute_tasks_parallel: the queue's tasks,
\* added beforehand, as in test_execute_tasks_parallel.
ParallelLists == {GraphOf(n, {}) : n \in 1..(NumTasks + 1)}

\* The tasks callers hand to execute_task_async themselves, one call each:
\* two, the calls being awaited one after the other or both at once.
DirectLists == {GraphOf(2, {})}

\* ------------------------------------------------------------------ state
VARIABLES
    entry,           \* "project": execute_project; "parallel": execute_tasks_parallel;
                     \* "task": execute_task_async
    decomposed,      \* what supervisor.decompose_task(objective) returns
    max_parallel,    \* self.max_parallel (max_concurrent for "parallel")
    max_iterations,  \* self.max_iterations
    task_queue,      \* self.task_queue
    agent_pool,      \* self.agent_pool
    pc,              \* position of the control flow
    iteration,       \* local iteration of execute_project
    batch,           \* tasks_to_execute / tasks of the running gather
    co,              \* state of execute_with_semaphore(task), per task id
    semaphore,       \* the asyncio.Semaphore's _value
    handles,           \* the event loop's queue of callbacks (loop._ready)
    ntodo,           \* callbacks of the running loop iteration still to run
    direct,          \* per task id, the execute_task_async call a caller awaits
    exec_calls,      \* per task id, number of execute invocations started
    perf_events,     \* per task id, the success flags given to record_agent_performance
    pool_calls,      \* per task id, the <<agent, success>> given to mark_task_complete
    summary,         \* the dict execute_project returns
    slept,           \* the time.sleep(0.1) branch was taken
    raised,          \* the exception that escaped, or None
    last_ready,      \* what the caller's last get_ready_tasks() returned
    roster,          \* the agent configs the AgentPool was built from, in order
    monitor,         \* a QualityMonitor
    passed,          \* the <<task id, output>> pairs handed to the monitor so far
    answer,          \* what the last call on the pool, the monitor or the DAG returned
    dag              \* the locals of a running WorkflowDAG.get_execution_order

vars == <<entry, decomposed, max_parallel, max_iterations, task_queue, agent_pool,
          pc, iteration, batch, co, semaphore, handles, ntodo, direct, exec_calls,
          perf_events, pool_calls, summary, slept, raised, last_ready,
          roster, monitor, passed, answer, dag>>

\* The roster, the QualityMonitor and the WorkflowDAG with what their caller
\* holds: no line of multi_agent_executor.py reads or writes them.
standalone == <<roster, monitor, passed, answer, dag>>

params == <<entry, decomposed, max_parallel, max_iterations>>

\* The event loop of asyncio.run: a callback scheduled while an iteration
\* runs is run by the next one.
loop == <<handles, ntodo>>

\* No get_ready_tasks() result is held (none asked for since the last change).
NotQueried == <<Ghost>>

Ids == 1..Len(decomposed)

\* What execute_project has returned: nothing yet.
NoSummary == [tasks_total |-> 0, tasks_completed |-> 0, tasks_failed |-> 0,
              iterations |-> 0, status |-> None]

\* --------------------------------------------------------- QualityMonitor
\* Coverage values and min_coverage_improvement are percentages written with
\* two decimals and counted in hundredths of a point (70.01 is 7001, 0.05 is
\* 5); the program holds each as the binary double nearest to the decimal
\* (DoubleError). Quality scores, similarity values and similarity_threshold
\* are counted in hundredths (0.8 is 80, 1.0 is 100, 0.95 is 95).

\* coverage=None: record_iteration was given no coverage.
NoCoverage == -1

\* QualityMonitor(min_coverage_improvement, max_iterations_without_improvement,
\* similarity_threshold)
QualityMonitor(min_improvement, window, threshold) ==
    [min_coverage_improvement |-> min_improvement,
     max_iterations_without_improvement |-> window,
     similarity_threshold |-> threshold,
     iteration_history |-> <<>>,
     output_hashes |-> <<>>,
     coverage_history |-> <<>>]

\* quality_score=None: record_iteration was given no quality score.
NoScore == -1

\* record_iteration(iteration, coverage, quality_score, tasks_completed): the
\* four values are stored as given; the coverage joins coverage_history unless
\* it is None.
record_iteration_always(m, it, coverage, quality_score, tasks_completed) ==
    [m EXCEPT
       !.iteration_history =
           Append(@, [iteration |-> it, coverage |-> coverage,
                      quality_score |-> quality_score,
                      tasks_completed |-> tasks_completed]),
       !.coverage_history = Append(@, coverage)]
record_iteration(m, it, coverage, quality_score, tasks_completed) ==
    [m EXCEPT
       !.iteration_history =
           Append(@, [iteration |-> it, coverage |-> coverage,
                      quality_score |-> quality_score,
                      tasks_completed |-> tasks_completed]),
       !.coverage_history = IF coverage # NoCoverage THEN Append(@, coverage) ELSE @]

\* hashlib.sha256(output.encode()).hexdigest(): equal for equal outputs,
\* different for different ones.
Sha256(output) == <<"sha256", output>>

\* check_output_similarity: the monitor after the call and the value returned.
check_output_similarity_any_task(m, task_id, output) ==
    LET known == UNION {Range(m.output_hashes[t]) : t \in DOMAIN m.output_hashes}
        hashes == [t \in DOMAIN m.output_hashes \cup {task_id} |->
                      IF t \in DOMAIN m.output_hashes THEN m.output_hashes[t] ELSE <<>>]
    IN IF Sha256(output) \in known
       THEN [monitor |-> [m EXCEPT !.output_hashes = hashes], value |-> 100]
       ELSE [monitor |-> [m EXCEPT !.output_hashes =
                             [hashes EXCEPT ![task_id] = Append(@, Sha256(output))]],
             value |-> 0]
check_output_similarity_latest(m, task_id, output) ==
    LET hashes == [t \in DOMAIN m.output_hashes \cup {task_id} |->
                      IF t \in DOMAIN m.output_hashes THEN m.output_hashes[t] ELSE <<>>]
    IN IF Sha256(output) \in Range(hashes[task_id])
       THEN [monitor |-> [m EXCEPT !.output_hashes = hashes], value |-> 100]
       ELSE [monitor |-> [m EXCEPT !.output_hashes =
                             [hashes EXCEPT ![task_id] = <<Sha256(output)>>]],
             value |-> 0]
check_output_similarity(m, task_id, output) ==
    LET hashes == [t \in DOMAIN m.output_hashes \cup {task_id} |->
                      IF t \in DOMAIN m.output_hashes THEN m.output_hashes[t] ELSE <<>>]
    IN IF Sha256(output) \in Range(hashes[task_id])
       THEN [monitor |-> [m EXCEPT !.output_hashes = hashes], value |-> 100]
       ELSE [monitor |-> [m EXCEPT !.output_hashes =
                             [hashes EXCEPT ![task_id] = Append(@, Sha256(output))]],
             value |-> 0]

\* detect_loop: similarity >= self.similarity_threshold
detect_loop_above(m, task_id, output) ==
    LET r == check_output_similarity(m, task_id, output)
    IN [monitor |-> r.monitor, value |-> r.value > r.monitor.similarity_threshold]
detect_loop(m, task_id, output) ==
    LET r == check_output_similarity(m, task_id, output)
    IN [monitor |-> r.monitor, value |-> r.value >= r.monitor.similarity_threshold]

\* Python's seq[-n:]: the last n elements, all of them when n is 0 or more
\* than there are; for a negative n it is seq[k:] with k = -n, the list
\* without its first k elements.
LastN(s, n) ==
    IF n < 0 THEN SubSeq(s, 1 - n, Len(s))
    ELSE IF n = 0 \/ n >= Len(s) THEN s
    ELSE SubSeq(s, Len(s) - n + 1, Len(s))

\* A float written with two decimals is the binary double nearest to it, not
\* the decimal itself. DoubleError(x) is the double of x/100 minus x/100,
\* counted in units of 2^-57 / 100, for the decimals the model uses: 70.05
\* is held as 70.0499999999999971..., 0.05 as 0.05000000000000000277...
DoubleError(x) ==
    CASE x = 1 -> 3
      [] x = 5 -> 40
      [] x = 10 -> 80
      [] x = 50 -> 0
      [] x = 500 -> 0
      [] x = 7000 -> 0
      [] x = 7001 -> 73728
      [] x = 7002 -> -57344
      [] x = 7003 -> 16384
      [] x = 7005 -> -40960
      [] x = 7010 -> -81920
      [] x = 7050 -> 0
      [] x = 7500 -> 0
      [] x = 8000 -> 0

\* recent[i + 1] - recent[i] < self.min_coverage_improvement on doubles, for
\* coverages from 64 up to 128: the subtraction of two doubles of one binade
\* is exact, so the outcome is that of the decimals unless their difference
\* equals the threshold, where the conversion errors decide (70.05 - 70.0 is
\* 0.04999999999999716, below 0.05).
ImprovementBelow(before, after, min_improvement) ==
    \/ after - before < min_improvement
    \/ /\ after - before = min_improvement
       /\ DoubleError(after) - DoubleError(before) < DoubleError(min_improvement)

\* improvements = [recent[i + 1] - recent[i] ...]; all(imp < min ...)
NoImprovement(m) ==
    LET recent == LastN(m.coverage_history, m.max_iterations_without_improvement)
    IN \A i \in 1..(Len(recent) - 1) :
          ImprovementBelow(recent[i], recent[i + 1], m.min_coverage_improvement)

\* should_continue(iteration): the pair returned, the number the reason
\* quotes beside it.
Verdict(continue, reason, n) == [continue |-> continue, reason |-> reason, quoted |-> n]
should_continue_one_point(m, it) ==
    IF Len(m.iteration_history) < 1
    THEN Verdict(TRUE, "insufficient_data", 0)
    ELSE IF /\ Len(m.coverage_history) >= m.max_iterations_without_improvement
            /\ NoImprovement(m)
         THEN Verdict(FALSE, "No coverage improvement",
                      m.max_iterations_without_improvement)
         ELSE Verdict(TRUE, "quality_improving", 0)
should_continue_any_rise(m, it) ==
    IF Len(m.iteration_history) < 2
    THEN Verdict(TRUE, "insufficient_data", 0)
    ELSE IF /\ Len(m.coverage_history) >= m.max_iterations_without_improvement
            /\ LET recent == LastN(m.coverage_history,
                                   m.max_iterations_without_improvement)
               IN \A i \in 1..(Len(recent) - 1) : recent[i + 1] - recent[i] <= 0
         THEN Verdict(FALSE, "No coverage improvement",
                      m.max_iterations_without_improvement)
         ELSE Verdict(TRUE, "quality_improving", 0)
should_continue(m, it) ==
    IF Len(m.iteration_history) < 2
    THEN Verdict(TRUE, "insufficient_data", 0)
    ELSE IF /\ Len(m.coverage_history) >= m.max_iterations_without_improvement
            /\ NoImprovement(m)
         THEN Verdict(FALSE, "No coverage improvement",
                      m.max_iterations_without_improvement)
         ELSE Verdict(TRUE, "quality_improving", 0)

\* _calculate_trend(values): the sign of the consecutive differences over
\* values[-3:].
calculate_trend_all(values) ==
    IF Len(values) < 2 THEN "insufficient_data"
    ELSE IF \A i \in 1..(Len(values) - 1) : values[i + 1] > values[i] THEN "improving"
    ELSE IF \A i \in 1..(Len(values) - 1) : values[i + 1] < values[i] THEN "declining"
    ELSE "stable"
calculate_trend(values) ==
    IF Len(values) < 2 THEN "insufficient_data"
    ELSE LET recent == IF Len(values) >= 3 THEN LastN(values, 3) ELSE values
         IN IF \A i \in 1..(Len(recent) - 1) : recent[i + 1] > recent[i]
            THEN "improving"
            ELSE IF \A i \in 1..(Len(recent) - 1) : recent[i + 1] < recent[i]
                 THEN "declining"
                 ELSE "stable"

\* sum(it.get("tasks_completed", 0) for it in self.iteration_history)
RECURSIVE TotalCompleted(_)
TotalCompleted(history) ==
    IF history = <<>> THEN 0
    ELSE Head(history).tasks_completed + TotalCompleted(Tail(history))

\* get_quality_metrics(): the dict returned.
get_quality_metrics(m) ==
    IF m.iteration_history = <<>>
    THEN [status |-> "no_data"]
    ELSE [iterations |-> Len(m.iteration_history),
          current_coverage |-> m.iteration_history[Len(m.iteration_history)].coverage,
          current_quality_score |->
              m.iteration_history[Len(m.iteration_history)].quality_score,
          total_tasks_completed |-> TotalCompleted(m.iteration_history),
          coverage_trend |-> calculate_trend(m.coverage_history)]

\* ------------------------------------------------------------ WorkflowDAG
\* WorkflowDAG(tasks): self.tasks is a dict by task id, so of two tasks with
\* one id the later one stays, and the ids are in first-insertion order.
DagIds(tasks) == {tasks[i].task_id : i \in DOMAIN tasks}
DagTask(tasks, t) ==
    tasks[CHOOSE i \in DOMAIN tasks :
             /\ tasks[i].task_id = t
             /\ \A j \in DOMAIN tasks : tasks[j].task_id = t => j <= i]

\* _build_graph: an edge (dep_id, task_id) for every dependency that is in
\* self.tasks. Dependencies are sets here, so no edge is listed twice.
build_graph(tasks) ==
    {e \in DagIds(tasks) \X DagIds(tasks) : e[1] \in DagTask(tasks, e[2]).dependencies}

\* in_degree = dict.fromkeys(self.tasks, 0); in_degree[target] += 1 per edge
InDegree(tasks) ==
    [t \in DagIds(tasks) |-> Cardinality({e \in build_graph(tasks) : e[2] = t})]

\* batch = [task_id for task_id in remaining if in_degree[task_id] == 0], as
\* a set; `remaining` is a set, so the order of the list is not fixed.
ZeroInDegreeOrOne(d) == {t \in d.remaining : d.in_degree[t] <= 1}
ZeroInDegree(d) == {t \in d.remaining : d.in_degree[t] = 0}

\* Every list that holds each element of S once.
ListsOf(S) ==
    {l \in [1..Cardinality(S) -> S] : \A i, j \in 1..Cardinality(S) : l[i] = l[j] => i = j}

\* No get_execution_order call is running.
NoDag == [in_degree |-> <<>>, remaining |-> {}, batches |-> <<>>]

\* Nothing has been returned by the pool or the monitor.
NoAnswer == [call |-> None]

\* A monitor with its default thresholds that nothing was reported to, and
\* the roster of the pool the executor was given.
StandaloneInit ==
    /\ roster = [i \in 1..Cardinality(DOMAIN agent_pool) |->
                    [name |-> SupervisorName, capabilities |-> {}]]
    /\ monitor = QualityMonitor(5, 3, 95)
    /\ passed = {}
    /\ answer = NoAnswer
    /\ dag = NoDag

RECURSIVE RegisterAllOverwrite(_, _)
RegisterAllOverwrite(q, subtasks) ==
    IF subtasks = <<>> THEN [queue |-> q, error |-> None]
    ELSE LET h == Head(subtasks) IN
         RegisterAllOverwrite(
             IF QHas(q, h.task_id)
             THEN [q EXCEPT !.tasks[h.task_id] = QueuedTask(h.task_id, h.dependencies)]
             ELSE add_task(q, h.task_id, h.dependencies),
             Tail(subtasks))

RECURSIVE RegisterAll(_, _)
\* for subtask in decomposed.subtasks: self.task_queue.add_task(...)
\* stops at the first rejected add_task.
RegisterAll(q, subtasks) ==
    IF subtasks = <<>> THEN [queue |-> q, error |-> None]
    ELSE IF ~add_task_ok(q, Head(subtasks).task_id)
         THEN [queue |-> q, error |-> "DuplicateTask"]
         ELSE RegisterAll(add_task(q, Head(subtasks).task_id, Head(subtasks).dependencies),
                          Tail(subtasks))

Init ==
    /\ entry \in {"project", "parallel", "task"}
    /\ decomposed \in (IF entry = "project" THEN Decompositions
                       ELSE IF entry = "parallel" THEN ParallelLists ELSE DirectLists)
    /\ max_parallel \in 1..MaxParallel
    /\ max_iterations \in 1..MaxIterations
    /\ task_queue = IF entry = "parallel" THEN RegisterAll(EmptyQueue, decomposed).queue
                    ELSE EmptyQueue
    /\ agent_pool \in {AgentPool({}), AgentPool({SupervisorName})}
    /\ pc = "start"
    /\ iteration = 0
    /\ batch = <<>>
    /\ co = [i \in Ids |-> "none"]
    /\ semaphore = 0
    /\ handles = <<>>
    /\ ntodo = 0
    /\ direct = [i \in Ids |-> NoCall]
    /\ exec_calls = [i \in Ids |-> 0]
    /\ perf_events = [i \in Ids |-> <<>>]
    /\ pool_calls = [i \in Ids |-> <<>>]
    /\ summary = NoSummary
    /\ slept = FALSE
    /\ raised = None
    /\ last_ready = NotQueried
    /\ StandaloneInit

\* ------------------------------------------------- execute_project: the loop
\* Step 4 of execute_project: the returned dict, iterations given.
SummaryTerminal(q, n) ==
    [tasks_total |-> Len(q.order),
     tasks_completed |-> CountStatus(q, COMPLETED),
     tasks_failed |-> CountStatus(q, FAILED),
     iterations |-> n,
     status |-> IF CountStatus(q, PENDING) + CountStatus(q, IN_PROGRESS) = 0
                THEN "completed" ELSE "incomplete"]
Summary(q, n) ==
    [tasks_total |-> Len(q.order),
     tasks_completed |-> CountStatus(q, COMPLETED),
     tasks_failed |-> CountStatus(q, FAILED),
     iterations |-> n,
     status |-> IF is_complete(q) THEN "completed" ELSE "incomplete"]

\* while not self.task_queue.is_complete() and iteration < self.max_iterations
LoopConditionNoBudget == ~is_complete(task_queue)
LoopConditionHaltOnFailure ==
    /\ ~is_complete(task_queue) /\ iteration < max_iterations
    /\ CountStatus(task_queue, FAILED) = 0
LoopConditionShortBudget == ~is_complete(task_queue) /\ iteration < max_iterations - 1
LoopCondition == ~is_complete(task_queue) /\ iteration < max_iterations

\* ready_tasks = self.task_queue.get_ready_tasks()
ReadyTasksAllPending ==
    SelectIds(task_queue.order,
              {i \in Range(task_queue.order) : task_queue.tasks[i].status = PENDING})
ReadyTasksIgnoreAbsent ==
    SelectIds(task_queue.order,
              {i \in Range(task_queue.order) :
                  /\ task_queue.tasks[i].status = PENDING
                  /\ \A d \in task_queue.tasks[i].dependencies :
                        QHas(task_queue, d) => task_queue.tasks[d].status = COMPLETED})
ReadyTasksFailedSatisfies ==
    SelectIds(task_queue.order,
              {i \in Range(task_queue.order) :
                  /\ task_queue.tasks[i].status = PENDING
                  /\ \A d \in task_queue.tasks[i].dependencies :
                        /\ QHas(task_queue, d)
                        /\ task_queue.tasks[d].status \in {COMPLETED, FAILED}})
ReadyTasks == get_ready_tasks(task_queue)

\* in_progress_count == 0 and not self.task_queue.is_complete()
DeadlockedNever == FALSE
Deadlocked == CountStatus(task_queue, IN_PROGRESS) = 0 /\ ~is_complete(task_queue)

\* tasks_to_execute = ready_tasks[: self.max_parallel]
TasksToExecuteAll(ready) == ready
TasksToExecuteLast(ready) ==
    IF Len(ready) <= max_parallel THEN ready
    ELSE SubSeq(ready, Len(ready) - max_parallel + 1, Len(ready))
TasksToExecute(ready) == Take(ready, max_parallel)

\* execute_project is running: called for the first time on the executor
\* ("project") or once more after it returned ("rerun").
ProjectEntries == {"project", "rerun"}

\* Steps 1 and 2: decompose the objective and register every subtask.
Decompose ==
    /\ pc = "start" /\ entry \in ProjectEntries
    /\ LET r == RegisterAll(task_queue, decomposed) IN
         /\ task_queue' = r.queue
         /\ raised' = r.error
         /\ pc' = IF r.error = None THEN "loop" ELSE "raised"
    /\ iteration' = 0
    /\ UNCHANGED <<params, standalone, last_ready, loop, direct, agent_pool, batch, co, semaphore, exec_calls,
                   perf_events, pool_calls, summary, slept>>

\* The while condition is false: fall through to step 4 and return.
LoopExit ==
    /\ pc = "loop"
    /\ ~LoopCondition
    /\ summary' = Summary(task_queue, iteration)
    /\ pc' = "done"
    /\ UNCHANGED <<params, standalone, last_ready, loop, direct, task_queue, agent_pool, iteration, batch, co, semaphore,
                   exec_calls, perf_events, pool_calls, slept, raised>>

\* A pass that finds no ready task: break on a deadlock, else sleep and
\* continue.
LoopNoReady ==
    /\ pc = "loop"
    /\ LoopCondition
    /\ ReadyTasks = <<>>
    /\ iteration' = iteration + 1
    /\ IF Deadlocked
       THEN /\ summary' = Summary(task_queue, iteration + 1)
            /\ pc' = "done"
            /\ slept' = slept
       ELSE /\ slept' = TRUE
            /\ UNCHANGED <<summary, pc>>
    /\ UNCHANGED <<params, standalone, last_ready, loop, direct, task_queue, agent_pool, batch, co, semaphore,
                   exec_calls, perf_events, pool_calls, raised>>

\* A callback of the event loop: Task.__step of the coroutine of task t
\* ("step"), the result of t's worker thread copied into the future the
\* coroutine awaits ("set"), gather's callback on a child that raised
\* ("gather"), the wakeup of the task running execute_tasks_parallel
\* ("main") and run_until_complete's callback that stops the loop ("stop").
Handle(kind, t) == <<kind, t>>

\* loop.call_soon of every coroutine gather wraps in a task, in list order.
Scheduled(tasks) == [i \in DOMAIN tasks |-> Handle("step", tasks[i])]

\* A pass with ready tasks: asyncio.run(execute_tasks_parallel(batch, max_parallel))
\* creates the semaphore and one execute_with_semaphore coroutine per task.
LoopDispatch ==
    /\ pc = "loop"
    /\ LoopCondition
    /\ ReadyTasks # <<>>
    /\ iteration' = iteration + 1
    /\ batch' = TasksToExecute(ReadyTasks)
    /\ co' = [i \in Ids |-> IF i \in Range(batch') THEN "created" ELSE co[i]]
    /\ semaphore' = max_parallel
    /\ handles' = Scheduled(batch')
    /\ ntodo' = 0
    /\ pc' = "batch"
    /\ UNCHANGED <<params, standalone, last_ready, direct, task_queue, agent_pool, exec_calls,
                   perf_events, pool_calls, summary, slept, raised>>

\* A direct call execute_tasks_parallel(tasks, max_concurrent).
CallParallel ==
    /\ pc = "start" /\ entry = "parallel"
    /\ batch' = task_queue.order
    /\ co' = [i \in Ids |-> IF i \in Range(batch') THEN "created" ELSE co[i]]
    /\ semaphore' = max_parallel
    /\ handles' = Scheduled(batch')
    /\ ntodo' = 0
    /\ pc' = "batch"
    /\ UNCHANGED <<params, standalone, last_ready, direct, task_queue, agent_pool, iteration,
                   exec_calls, perf_events, pool_calls, summary, slept, raised>>

\* ------------------------------------- execute_tasks_parallel: the coroutines
\* The first task of the batch whose coroutine is in state st, as a set.
FirstIn(st) ==
    {batch[i] : i \in {j \in DOMAIN batch :
                          /\ co[batch[j]] = st
                          /\ \A k \in 1..(j - 1) : co[batch[k]] # st}}

\* Semaphore.locked(): no permit left, or a coroutine still in the queue of
\* waiters (one handed a permit stays there until it resumes).
SemaphoreLockedNever == FALSE
SemaphoreLocked ==
    semaphore = 0 \/ \E i \in Range(batch) : co[i] \in {"waiting", "woken"}

\* The worker execute_with_semaphore names for every task.
AgentName(t) == SupervisorName

\* The loop is running callbacks: until stop() is called it runs whatever is
\* scheduled; after stop() it finishes the iteration it is in.
LoopRuns == pc = "batch" \/ (pc = "stopping" /\ ntodo > 0)

\* The callback h is the one the loop runs next.
Runs(h) == LoopRuns /\ handles # <<>> /\ Head(handles) = h

\* The loop has run the first callback of its queue, which scheduled the
\* callbacks given; an iteration runs the callbacks queued when it began.
Ran(scheduled) ==
    /\ handles' = Tail(handles) \o scheduled
    /\ ntodo' = IF ntodo = 0 THEN Len(handles) - 1 ELSE ntodo - 1

\* semaphore.release() on leaving `async with`: the first coroutine queued
\* for a permit, if any, is handed it and scheduled.
Woken == FirstIn("waiting")
Wakeups == IF Woken = {} THEN <<>> ELSE <<Handle("step", CHOOSE n \in Woken : TRUE)>>

\* The first coroutine that raises makes gather pass the exception on.
Failure ==
    IF \E i \in Range(batch) : co[i] = "failed" THEN <<>>
    ELSE <<Handle("gather", Ghost)>>

\* The coroutine of t leaves `async with` in state st, holding one of the
\* permits that leave `value` in the semaphore.
Leave(t, st, value) ==
    /\ co' = [i \in Ids |-> IF i = t THEN st
                            ELSE IF i \in Woken THEN "woken" ELSE co[i]]
    /\ semaphore' = IF Woken = {} THEN value + 1 ELSE value

\* The body of `async with semaphore` up to the first suspension, `value`
\* permits being left: mark_in_progress, then execute_task_async awaits
\* asyncio.to_thread(...). A rejected mark_in_progress raises out of the
\* block, which releases the permit and ends the coroutine.
EnterBlock(t, value) ==
    IF mark_in_progress_ok(task_queue, t)
    THEN /\ task_queue' = mark_in_progress(task_queue, t, AgentName(t))
         /\ exec_calls' = [exec_calls EXCEPT ![t] = @ + 1]
         /\ co' = [co EXCEPT ![t] = "running"]
         /\ semaphore' = value
         /\ Ran(<<>>)
    ELSE /\ Leave(t, "failed", value)
         /\ Ran(Wakeups \o Failure)
         /\ UNCHANGED <<task_queue, exec_calls>>

\* The event loop runs the coroutines gather created, in list order, each up
\* to its first suspension: semaphore.acquire() either takes a permit at once
\* or queues the coroutine.
CoStart(t) ==
    /\ Runs(Handle("step", t))
    /\ co[t] = "created"
    /\ IF ~SemaphoreLocked
       THEN EnterBlock(t, semaphore - 1)
       ELSE /\ co' = [co EXCEPT ![t] = "waiting"]
            /\ Ran(<<>>)
            /\ UNCHANGED <<semaphore, task_queue, exec_calls>>
    /\ UNCHANGED <<params, standalone, last_ready, direct, agent_pool, pc, iteration, batch,
                   perf_events, pool_calls, summary, slept, raised>>

\* A coroutine that release() handed a permit to resumes and enters the
\* block. (acquire() passes a spare permit on to the next queued coroutine;
\* there is none, release() having handed every permit to the queue first.)
CoWake(t) ==
    /\ Runs(Handle("step", t))
    /\ co[t] = "woken"
    /\ EnterBlock(t, semaphore)
    /\ UNCHANGED <<params, standalone, last_ready, direct, agent_pool, pc, iteration, batch,
                   perf_events, pool_calls, summary, slept, raised>>

\* The worker thread running supervisor.decompose_task(description) ends: it
\* returns (ok) or raises, and hands its result to the loop
\* (call_soon_threadsafe).
ExecReturn(t, ok) ==
    /\ pc \in {"batch", "stopping"}
    /\ co[t] = "running"
    /\ co' = [co EXCEPT ![t] = IF ok THEN "returned_ok" ELSE "returned_err"]
    /\ handles' = Append(handles, Handle("set", t))
    /\ UNCHANGED <<params, standalone, last_ready, direct, task_queue, agent_pool, pc, iteration,
                   batch, semaphore, ntodo, exec_calls, perf_events, pool_calls, summary,
                   slept, raised>>

\* The loop copies the thread's result into the future the coroutine awaits,
\* which schedules the coroutine.
FutureDone(t) ==
    /\ Runs(Handle("set", t))
    /\ Ran(<<Handle("step", t)>>)
    /\ UNCHANGED <<params, standalone, last_ready, direct, task_queue, agent_pool, pc, iteration,
                   batch, co, semaphore, exec_calls, perf_events, pool_calls, summary,
                   slept, raised>>

\* Which queue transition follows a result.
QueueAfterRetry(q, t, success) ==
    IF success THEN mark_complete(q, t, "result")
    ELSE [q EXCEPT !.tasks[t].status = PENDING, !.tasks[t].assigned_to = None]
QueueAfterDropFailure(q, t, success) ==
    IF success THEN mark_complete(q, t, "result") ELSE q
QueueAfter(q, t, success) ==
    IF success THEN mark_complete(q, t, "result") ELSE mark_failed(q, t, "error")

\* The success flag execute_task_async reports for an outcome of the thread.
SuccessOfAlways(outcome) == TRUE
SuccessOf(outcome) == outcome = "returned_ok"

\* The coroutine resumes after the await: execute_task_async records the
\* performance event, releases the worker in the pool and returns its result
\* dict; execute_with_semaphore updates the queue and leaves the
\* `async with`, which releases the semaphore (a queued coroutine, if any,
\* is handed the permit). A rejected mark_complete / mark_failed raises out
\* of the block after the recording.
CoResume(t) ==
    /\ Runs(Handle("step", t))
    /\ co[t] \in {"returned_ok", "returned_err"}
    /\ LET success == SuccessOf(co[t])
       IN /\ perf_events' = [perf_events EXCEPT ![t] = Append(@, success)]
          /\ pool_calls' = [pool_calls EXCEPT ![t] = Append(@, <<AgentName(t), success>>)]
          /\ agent_pool' = mark_task_complete(agent_pool, AgentName(t), success)
          /\ IF mark_terminal_ok(task_queue, t)
             THEN /\ task_queue' = QueueAfter(task_queue, t, success)
                  /\ Leave(t, "finished", semaphore)
                  /\ Ran(Wakeups)
             ELSE /\ Leave(t, "failed", semaphore)
                  /\ Ran(Wakeups \o Failure)
                  /\ UNCHANGED task_queue
    /\ UNCHANGED <<params, standalone, last_ready, direct, pc, iteration, batch, exec_calls,
                   summary, slept, raised>>

\* await asyncio.gather(...): every coroutine of the batch has returned.
GatheredFirst == \E i \in Range(batch) : co[i] = "finished"
Gathered == \A i \in Range(batch) : co[i] = "finished"

\* The coroutines asyncio.run cancels that hold a permit: cancelled inside
\* `async with`, or after release() handed them one.
Holders ==
    {i \in Range(batch) : co[i] \in {"running", "returned_ok", "returned_err", "woken"}}

\* An exception on its way out of asyncio.run. gather sets it on its future,
\* the task running execute_tasks_parallel is woken and raises it, and the
\* callback of run_until_complete stops the loop: three callbacks, one loop
\* iteration each, the coroutines scheduled meanwhile running as usual. When
\* the iteration that ran stop() is over, asyncio.run cancels every
\* coroutine left (CancelledError is no Exception: nothing is recorded, the
\* permits are given back, the queue keeps the tasks as they are) and raises.
Unwind ==
    IF handles # <<>> /\ Head(handles)[1] \in {"gather", "main", "stop"}
    THEN /\ LoopRuns
         /\ Ran(IF Head(handles)[1] = "gather" THEN <<Handle("main", Ghost)>>
                ELSE IF Head(handles)[1] = "main" THEN <<Handle("stop", Ghost)>>
                ELSE <<>>)
         /\ pc' = IF Head(handles)[1] = "stop" THEN "stopping" ELSE pc
         /\ UNCHANGED <<co, batch, semaphore, raised>>
    ELSE /\ pc = "stopping" /\ ntodo = 0
         /\ pc' = "raised"
         /\ raised' = "InvalidTransition"
         /\ semaphore' = semaphore + Cardinality(Holders)
         /\ co' = [i \in Ids |-> "none"]
         /\ batch' = <<>>
         /\ handles' = <<>>
         /\ ntodo' = 0

\* asyncio.gather has every result and asyncio.run returns, or an exception
\* leaves asyncio.run.
GatherDone ==
    /\ IF pc = "batch" /\ Gathered
       THEN /\ pc' = IF entry \in ProjectEntries THEN "loop" ELSE "done"
            /\ co' = [i \in Ids |-> "none"]
            /\ batch' = <<>>
            /\ handles' = <<>>
            /\ ntodo' = 0
            /\ UNCHANGED <<semaphore, raised>>
       ELSE Unwind
    /\ UNCHANGED <<params, standalone, last_ready, direct, task_queue, agent_pool, iteration,
                   exec_calls, perf_events, pool_calls, summary, slept>>

\* -------------------------------------------- execute_task_async on its own
\* The worker names a caller of execute_task_async passes: the supervisor or
\* a name of its own.
CallerAgentNames == {SupervisorName, "agent1"}

\* A caller calls execute_task_async(task_id, description, agent_name) on
\* the executor itself, outside any batch (several calls may be awaited at
\* once, as under asyncio.gather): the coroutine starts the thread that runs
\* supervisor.decompose_task and is suspended at the await.
DirectCall(t, agent_name) ==
    /\ entry = "task" /\ pc \in {"start", "task"}
    /\ direct[t] = NoCall
    /\ exec_calls[t] < MaxDirectCalls
    /\ direct' = [direct EXCEPT ![t] = [agent_name |-> agent_name, state |-> "running"]]
    /\ exec_calls' = [exec_calls EXCEPT ![t] = @ + 1]
    /\ pc' = "task"
    /\ UNCHANGED <<params, standalone, last_ready, loop, task_queue, agent_pool, iteration,
                   batch, co, semaphore, perf_events, pool_calls, summary, slept, raised>>

\* The thread of a direct call ends: decompose_task returns (ok) or raises.
DirectReturn(t, ok) ==
    /\ pc = "task"
    /\ direct[t].state = "running"
    /\ direct' = [direct EXCEPT ![t].state = IF ok THEN "returned_ok" ELSE "returned_err"]
    /\ UNCHANGED <<params, standalone, last_ready, loop, task_queue, agent_pool, pc, iteration,
                   batch, co, semaphore, exec_calls, perf_events, pool_calls, summary,
                   slept, raised>>

\* The coroutine of a direct call resumes after the await: the performance
\* event is recorded, agent_pool.mark_task_complete is called with the name
\* given, and the result dict is returned. Neither the queue nor a semaphore
\* is touched.
DirectResume(t) ==
    /\ pc = "task"
    /\ direct[t].state \in {"returned_ok", "returned_err"}
    /\ LET success == SuccessOf(direct[t].state)
           agent_name == direct[t].agent_name
       IN /\ perf_events' = [perf_events EXCEPT ![t] = Append(@, success)]
          /\ pool_calls' = [pool_calls EXCEPT ![t] = Append(@, <<agent_name, success>>)]
          /\ agent_pool' = mark_task_complete(agent_pool, agent_name, success)
    /\ direct' = [direct EXCEPT ![t] = NoCall]
    /\ UNCHANGED <<params, standalone, last_ready, loop, task_queue, pc, iteration, batch, co,
                   semaphore, exec_calls, summary, slept, raised>>

\* The steps of a batch in which no coroutine queues for a permit.
UncontendedNext ==
    \/ \E t \in Ids : CoStart(t)
    \/ \E t \in Ids, ok \in BOOLEAN : ExecReturn(t, ok)
    \/ \E t \in Ids : FutureDone(t)
    \/ \E t \in Ids : CoResume(t)
    \/ GatherDone

\* The steps of execute_project. Its batches are no longer than
\* max_parallel, the limit of their semaphore, so that no coroutine is ever
\* queued or woken (ProjectNeverWaits).
ProjectNext ==
    \/ Decompose
    \/ LoopExit
    \/ LoopNoReady
    \/ LoopDispatch
    \/ UncontendedNext

\* The steps of execute_project and of execute_tasks_parallel.
RunNext ==
    \/ ProjectNext
    \/ CallParallel
    \/ \E t \in Ids : CoWake(t)

\* The steps of execute_task_async called on its own.
DirectNext ==
    \/ \E t \in Ids, agent_name \in CallerAgentNames : DirectCall(t, agent_name)
    \/ \E t \in Ids, ok \in BOOLEAN : DirectReturn(t, ok)
    \/ \E t \in Ids : DirectResume(t)

\* Any call on the executor: a run, or execute_task_async on its own.
Next == RunNext \/ DirectNext

Spec == Init /\ [][Next]_vars

\* --------------------------------------- the queue driven by any caller
\* Any sequence of TaskQueue calls. The tasks added are those of one
\* decomposition, in list order; an id already present may be added again
\* (rejected), and the transition methods are called with any id, present or
\* not, in any status.
\* The results a caller hands to mark_complete.
Results == {"result", "other"}

QueueInit ==
    /\ entry = "queue"
    /\ decomposed \in QueueDecompositions
    /\ max_parallel = 1
    /\ max_iterations = 1
    /\ task_queue = EmptyQueue
    /\ agent_pool = AgentPool({})
    /\ pc = "queue"
    /\ iteration = 0
    /\ batch = <<>>
    /\ co = [i \in Ids |-> "none"]
    /\ semaphore = 0
    /\ handles = <<>>
    /\ ntodo = 0
    /\ direct = [i \in Ids |-> NoCall]
    /\ exec_calls = [i \in Ids |-> 0]
    /\ perf_events = [i \in Ids |-> <<>>]
    /\ pool_calls = [i \in Ids |-> <<>>]
    /\ summary = NoSummary
    /\ slept = FALSE
    /\ raised = None
    /\ last_ready = NotQueried
    /\ StandaloneInit

QueueFrame ==
    UNCHANGED <<params, standalone, agent_pool, pc, iteration, batch, co, semaphore, loop, direct, exec_calls,
                perf_events, pool_calls, summary, slept>>

QAddTask(i) ==
    /\ pc = "queue"
    /\ i <= Len(task_queue.order) + 1
    /\ IF add_task_ok(task_queue, decomposed[i].task_id)
       THEN /\ task_queue' = add_task(task_queue, decomposed[i].task_id,
                                       decomposed[i].dependencies)
            /\ raised' = None
       ELSE /\ raised' = "DuplicateTask"
            /\ UNCHANGED task_queue
    /\ last_ready' = NotQueried
    /\ QueueFrame

QMarkInProgress(id) ==
    /\ pc = "queue"
    /\ IF mark_in_progress_ok(task_queue, id)
       THEN /\ task_queue' = mark_in_progress(task_queue, id, SupervisorName)
            /\ raised' = None
       ELSE /\ raised' = "InvalidTransition"
            /\ UNCHANGED task_queue
    /\ last_ready' = NotQueried
    /\ QueueFrame

QMarkComplete(id, res) ==
    /\ pc = "queue"
    /\ IF mark_terminal_ok(task_queue, id)
       THEN /\ task_queue' = mark_complete(task_queue, id, res)
            /\ raised' = None
       ELSE /\ raised' = "InvalidTransition"
            /\ UNCHANGED task_queue
    /\ last_ready' = NotQueried
    /\ QueueFrame

QMarkFailed(id) ==
    /\ pc = "queue"
    /\ IF mark_terminal_ok(task_queue, id)
       THEN /\ task_queue' = mark_failed(task_queue, id, "error")
            /\ raised' = None
       ELSE /\ raised' = "InvalidTransition"
            /\ UNCHANGED task_queue
    /\ last_ready' = NotQueried
    /\ QueueFrame

\* ready = queue.get_ready_tasks(): the caller keeps what it returns.
QGetReady ==
    /\ pc = "queue"
    /\ last_ready' = get_ready_tasks(task_queue)
    /\ UNCHANGED <<task_queue, raised>>
    /\ QueueFrame

QueueNext ==
    \/ QGetReady
    \/ \E i \in Ids : QAddTask(i)
    \/ \E id \in {Ghost} \cup Ids : QMarkInProgress(id)
    \/ \E id \in {Ghost} \cup Ids, res \in Results : QMarkComplete(id, res)
    \/ \E id \in {Ghost} \cup Ids : QMarkFailed(id)

QueueSpec == QueueInit /\ [][QueueNext]_vars

\* execute_project is called again on the executor that has returned, with
\* the objective decomposed as before: self.task_queue is the object made in
\* __init__, nothing in execute_project replaces or empties it.
Rerun ==
    /\ pc = "done" /\ entry = "project"
    /\ entry' = "rerun"
    /\ pc' = "start"
    /\ summary' = NoSummary
    /\ UNCHANGED <<decomposed, max_parallel, max_iterations, task_queue, agent_pool,
                   iteration, batch, co, semaphore, loop, direct, exec_calls, perf_events,
                   pool_calls, slept, raised, last_ready, standalone>>

RerunNext == Next \/ Rerun

RerunSpec == Init /\ [][RerunNext]_vars

\* ------------------------------------- the monitor driven by any caller
\* Any sequence of calls on one QualityMonitor. A caller either checks
\* outputs (check_output_similarity, detect_loop) or reports iterations and
\* asks should_continue and get_quality_metrics, or does both with the
\* default thresholds, or reports iterations with their quality score and
\* their number of completed tasks. No executor is running.
MaxRecords == 4

MonitorTasks == {"task1", "task2"}
Outputs == {"output", "different"}
Thresholds == {0, 95, 100, 150}
Coverages == {7000, 7001, 7002, 7003, 7005, 7500}
\* 0.05, the default, which no double holds exactly, and 5.0, which one does.
Improvements == {5, 500}
Windows == 1..(MaxRecords - 1)
\* The coverage reported by a caller that also checks outputs.
MixedCoverages == {7000, NoCoverage}
\* What record_iteration is given, <<coverage, quality_score,
\* tasks_completed>>, by each kind of caller.
Reports(caller) ==
    CASE caller = "convergence" -> {<<c, NoScore, 0>> : c \in Coverages \cup {NoCoverage}}
      [] caller = "mixed" -> {<<c, NoScore, 0>> : c \in MixedCoverages}
      [] caller = "metrics" ->
           {<<7000, 70, 3>>, <<7500, 80, 5>>, <<7000, NoScore, 2>>, <<7500, NoScore, 0>>,
            <<NoCoverage, NoScore, 4>>, <<NoCoverage, 80, 0>>}
      [] OTHER -> {}
AllReports == Reports("convergence") \cup Reports("mixed") \cup Reports("metrics")

Detached(e) ==
    /\ entry = e
    /\ decomposed = <<>>
    /\ max_parallel = 1
    /\ max_iterations = 1
    /\ task_queue = EmptyQueue
    /\ pc = e
    /\ iteration = 0
    /\ batch = <<>>
    /\ co = [i \in Ids |-> "none"]
    /\ semaphore = 0
    /\ handles = <<>>
    /\ ntodo = 0
    /\ direct = [i \in Ids |-> NoCall]
    /\ exec_calls = [i \in Ids |-> 0]
    /\ perf_events = [i \in Ids |-> <<>>]
    /\ pool_calls = [i \in Ids |-> <<>>]
    /\ summary = NoSummary
    /\ slept = FALSE
    /\ raised = None
    /\ last_ready = NotQueried

DetachedFrame ==
    UNCHANGED <<params, task_queue, agent_pool, pc, iteration, batch, co, semaphore, loop, direct,
                exec_calls, perf_events, pool_calls, summary, slept, raised, last_ready,
                dag>>

Answer(call, args, value) == [call |-> call, args |-> args, value |-> value]

MonitorInit ==
    /\ \/ /\ Detached("similarity")
          /\ \E threshold \in Thresholds : monitor = QualityMonitor(5, 3, threshold)
       \/ /\ Detached("convergence")
          /\ \E min_improvement \in Improvements, window \in Windows :
                monitor = QualityMonitor(min_improvement, window, 95)
       \/ /\ Detached("mixed")
          /\ monitor = QualityMonitor(5, 3, 95)
       \/ /\ Detached("metrics")
          /\ monitor = QualityMonitor(5, 3, 95)
    /\ agent_pool = AgentPool({})
    /\ roster = <<>>
    /\ passed = {}
    /\ answer = NoAnswer
    /\ dag = NoDag

CheckSimilarity(task_id, output) ==
    /\ pc \in {"similarity", "mixed"}
    /\ LET r == check_output_similarity(monitor, task_id, output)
       IN /\ monitor' = r.monitor
          /\ answer' = Answer("check_output_similarity", <<task_id, output>>, r.value)
    /\ passed' = passed \cup {<<task_id, output>>}
    /\ UNCHANGED roster
    /\ DetachedFrame

DetectLoop(task_id, output) ==
    /\ pc \in {"similarity", "mixed"}
    /\ LET r == detect_loop(monitor, task_id, output)
       IN /\ monitor' = r.monitor
          /\ answer' = Answer("detect_loop", <<task_id, output>>, r.value)
    /\ passed' = passed \cup {<<task_id, output>>}
    /\ UNCHANGED roster
    /\ DetachedFrame

RecordIteration(coverage, quality_score, tasks_completed) ==
    /\ <<coverage, quality_score, tasks_completed>> \in Reports(pc)
    /\ Len(monitor.iteration_history) < MaxRecords
    /\ monitor' = record_iteration(monitor, Len(monitor.iteration_history) + 1,
                                   coverage, quality_score, tasks_completed)
    /\ answer' = Answer("record_iteration",
                        <<coverage, quality_score, tasks_completed>>, None)
    /\ UNCHANGED <<roster, passed>>
    /\ DetachedFrame

ShouldContinue(it) ==
    /\ pc \in {"convergence", "mixed", "metrics"}
    /\ answer' = Answer("should_continue", <<it>>, should_continue(monitor, it))
    /\ UNCHANGED <<roster, monitor, passed>>
    /\ DetachedFrame

GetQualityMetrics ==
    /\ pc \in {"convergence", "mixed", "metrics"}
    /\ answer' = Answer("get_quality_metrics", <<>>, get_quality_metrics(monitor))
    /\ UNCHANGED <<roster, monitor, passed>>
    /\ DetachedFrame

MonitorNext ==
    \/ \E task_id \in MonitorTasks, output \in Outputs : CheckSimilarity(task_id, output)
    \/ \E task_id \in MonitorTasks, output \in Outputs : DetectLoop(task_id, output)
    \/ \E report \in AllReports : RecordIteration(report[1], report[2], report[3])
    \/ \E it \in 0..MaxRecords : ShouldContinue(it)
    \/ GetQualityMetrics

MonitorSpec == MonitorInit /\ [][MonitorNext]_vars

\* ---------------------------------------- the pool driven by any caller
\* Any sequence of AgentPool calls on a roster of up to two agents, declared
\* in either order, each with any subset of the capabilities. No executor is
\* running. MaxOutcomes caps the outcomes counted per worker.
MaxOutcomes == 2

AgentNames == {"agent1", "agent2"}
Capabilities == {"python", "testing"}
PoolTasks == {"task1", "task2"}

Rosters ==
    {<<>>}
    \cup {<<AgentDefinition(a, c)>> : a \in AgentNames, c \in SUBSET Capabilities}
    \cup {r \in {<<AgentDefinition(a, c), AgentDefinition(b, d)>> :
                     a \in AgentNames, b \in AgentNames,
                     c \in SUBSET Capabilities, d \in SUBSET Capabilities} :
             r[1].name # r[2].name}

PoolInit ==
    /\ Detached("pool")
    /\ roster \in Rosters
    /\ agent_pool = PoolOf(roster)
    /\ monitor = QualityMonitor(5, 3, 95)
    /\ passed = {}
    /\ answer = NoAnswer
    /\ dag = NoDag

PoolFrame ==
    UNCHANGED <<params, task_queue, pc, iteration, batch, co, semaphore, loop, direct, exec_calls,
                perf_events, pool_calls, summary, slept, raised, last_ready,
                roster, monitor, passed, dag>>

AssignTask(task_id, name) ==
    /\ pc = "pool"
    /\ agent_pool' = assign_task_to_agent(agent_pool, task_id, name)
    /\ answer' = Answer("assign_task_to_agent", <<task_id, name>>,
                        assign_ok(agent_pool, name))
    /\ PoolFrame

MarkTaskComplete(name, success) ==
    /\ pc = "pool"
    /\ name \in DOMAIN agent_pool =>
           agent_pool[name].tasks_completed + agent_pool[name].tasks_failed < MaxOutcomes
    /\ agent_pool' = mark_task_complete(agent_pool, name, success)
    /\ answer' = Answer("mark_task_complete", <<name, success>>, None)
    /\ PoolFrame

\* The second element of args tells that the call before was the same call.
FindBestAgent(required) ==
    /\ pc = "pool"
    /\ agent_pool' = PoolAfterFind(agent_pool, roster, required)
    /\ answer' = Answer("find_best_agent",
                        <<required, /\ answer.call = "find_best_agent"
                                    /\ answer.args[1] = required>>,
                        find_best_agent(agent_pool, roster, required))
    /\ PoolFrame

PoolNext ==
    \/ \E task_id \in PoolTasks, name \in AgentNames : AssignTask(task_id, name)
    \/ \E name \in AgentNames, success \in BOOLEAN : MarkTaskComplete(name, success)
    \/ \E required \in SUBSET Capabilities : FindBestAgent(required)

PoolSpec == PoolInit /\ [][PoolNext]_vars

\* ------------------------------------- WorkflowDAG.get_execution_order
\* WorkflowDAG(tasks).get_execution_order() for every task list of the
\* executor's decompositions, lists with a repeated id, cycles,
\* self-dependencies and dependencies outside the list included. One step
\* per pass of the while loop.
DagInputs == SmallGraphs \cup {ScenarioA, Shuffled, Forward} \cup DuplicateDecompositions

DagInit ==
    /\ entry = "dag"
    /\ decomposed \in DagInputs
    /\ max_parallel = 1
    /\ max_iterations = 1
    /\ task_queue = EmptyQueue
    /\ agent_pool = AgentPool({})
    /\ pc = "dag"
    /\ iteration = 0
    /\ batch = <<>>
    /\ co = [i \in Ids |-> "none"]
    /\ semaphore = 0
    /\ handles = <<>>
    /\ ntodo = 0
    /\ direct = [i \in Ids |-> NoCall]
    /\ exec_calls = [i \in Ids |-> 0]
    /\ perf_events = [i \in Ids |-> <<>>]
    /\ pool_calls = [i \in Ids |-> <<>>]
    /\ summary = NoSummary
    /\ slept = FALSE
    /\ raised = None
    /\ last_ready = NotQueried
    /\ roster = <<>>
    /\ monitor = QualityMonitor(5, 3, 95)
    /\ passed = {}
    /\ answer = NoAnswer
    /\ dag = NoDag

DagFrame ==
    UNCHANGED <<params, task_queue, agent_pool, iteration, batch, co, semaphore, loop, direct,
                exec_calls, perf_events, pool_calls, summary, slept, raised, last_ready,
                roster, monitor, passed>>

\* The call: in-degrees counted, batches = [], remaining = all ids.
DagCall ==
    /\ pc = "dag"
    /\ dag' = [in_degree |-> InDegree(decomposed),
               remaining |-> DagIds(decomposed),
               batches |-> <<>>]
    /\ pc' = "dag_loop"
    /\ UNCHANGED answer
    /\ DagFrame

\* One pass of `while remaining` that finds a batch: the batch is appended
\* and removed, and the in-degree of a target drops by one for each edge from
\* a task of the batch.
DagPass ==
    /\ pc = "dag_loop"
    /\ dag.remaining # {}
    /\ ZeroInDegree(dag) # {}
    /\ \E listed \in ListsOf(ZeroInDegree(dag)) :
          dag' = [in_degree |->
                     [t \in DOMAIN dag.in_degree |->
                         dag.in_degree[t]
                           - Cardinality({e \in build_graph(decomposed) :
                                             e[1] \in ZeroInDegree(dag) /\ e[2] = t})],
                  remaining |-> dag.remaining \ ZeroInDegree(dag),
                  batches |-> Append(dag.batches, listed)]
    /\ UNCHANGED <<pc, answer>>
    /\ DagFrame

\* `remaining` is empty, or no task of it has in-degree 0 (the warning and
\* the break): return batches.
DagReturn ==
    /\ pc = "dag_loop"
    /\ dag.remaining = {} \/ ZeroInDegree(dag) = {}
    /\ answer' = Answer("get_execution_order", <<>>, dag.batches)
    /\ pc' = "dag_done"
    /\ UNCHANGED dag
    /\ DagFrame

DagNext == DagCall \/ DagPass \/ DagReturn

DagSpec == DagInit /\ [][DagNext]_vars

\* The interpreter goes on running the call.
DagFairSpec == DagSpec /\ WF_vars(DagNext)

\* ------------------------------------------------ every entry point
RECURSIVE MarkAllInProgress(_, _)
\* Another caller has called mark_in_progress on the tasks of S.
MarkAllInProgress(q, S) ==
    IF S = {} THEN q
    ELSE LET t == CHOOSE x \in S : TRUE
         IN MarkAllInProgress(mark_in_progress(q, t, "agent1"), S \ {t})

\* The queues handed to execute_tasks_parallel after another caller has
\* taken some of their tasks.
TakenQueues(subtasks) ==
    {MarkAllInProgress(RegisterAll(EmptyQueue, subtasks).queue, S) :
        S \in SUBSET (1..Len(subtasks)) \ {{}}}

\* Every entry point together, decompositions with duplicate ids included;
\* the queue called on its own is given the named scenarios, and
\* execute_tasks_parallel also lists of tasks some of which are no longer
\* Pending.
FullInit ==
    \/ Init
    \/ QueueInit /\ decomposed \in Scenarios
    \/ /\ entry = "parallel"
       /\ decomposed \in {GraphOf(n, {}) : n \in 2..NumTasks}
       /\ max_parallel \in 1..MaxParallel
       /\ max_iterations = 1
       /\ task_queue \in TakenQueues(decomposed)
       /\ agent_pool = AgentPool({})
       /\ pc = "start"
       /\ iteration = 0
       /\ batch = <<>>
       /\ co = [i \in Ids |-> "none"]
       /\ semaphore = 0
       /\ handles = <<>>
       /\ ntodo = 0
       /\ direct = [i \in Ids |-> NoCall]
       /\ exec_calls = [i \in Ids |-> 0]
       /\ perf_events = [i \in Ids |-> <<>>]
       /\ pool_calls = [i \in Ids |-> <<>>]
       /\ summary = NoSummary
       /\ slept = FALSE
       /\ raised = None
       /\ last_ready = NotQueried
       /\ StandaloneInit
    \/ /\ entry = "project"
       /\ decomposed \in DuplicateDecompositions
       /\ max_parallel \in 1..MaxParallel
       /\ max_iterations \in 1..MaxIterations
       /\ task_queue = EmptyQueue
       /\ agent_pool = AgentPool({})
       /\ pc = "start"
       /\ iteration = 0
       /\ batch = <<>>
       /\ co = [i \in Ids |-> "none"]
       /\ semaphore = 0
       /\ handles = <<>>
       /\ ntodo = 0
       /\ direct = [i \in Ids |-> NoCall]
       /\ exec_calls = [i \in Ids |-> 0]
       /\ perf_events = [i \in Ids |-> <<>>]
       /\ pool_calls = [i \in Ids |-> <<>>]
       /\ summary = NoSummary
       /\ slept = FALSE
       /\ raised = None
       /\ last_ready = NotQueried
       /\ StandaloneInit

FullNext == Next \/ QueueNext

FullSpec == FullInit /\ [][FullNext]_vars

\* A run of execute_project in which the event loop keeps running and every
\* execute invocation returns. The pool is the empty one of the executor
\* tests: the run only writes to it.
ProjectInit == Init /\ entry = "project" /\ agent_pool = AgentPool({})

FairSpec == ProjectInit /\ [][ProjectNext]_vars /\ WF_vars(ProjectNext)

\* ------------------------------------------------------------- properties
Registered == Range(task_queue.order)
Status(t) == task_queue.tasks[t].status
DepsOf(t) == task_queue.tasks[t].dependencies
Terminal == {COMPLETED, FAILED}

\* The coroutines inside the `async with semaphore` block: their execute
\* invocation has started and its result is not yet handed to the queue.
InFlight == {t \in Ids : co[t] \in {"running", "returned_ok", "returned_err"}}

\* C1: at no instant are more execute invocations in flight than
\* max_parallel (execute_project) or max_concurrent (execute_tasks_parallel).
C1_BoundedConcurrency == Cardinality(InFlight) <= max_parallel

\* C1 witness: a direct call with more tasks than permits has filled every
\* permit while another coroutine queues for one.
C1_Witness ==
    /\ entry = "parallel"
    /\ max_parallel = 2
    /\ Cardinality(InFlight) = max_parallel
    /\ \E t \in Ids : co[t] = "waiting"

\* C2: in execute_project a task that has left Pending, or for which a
\* coroutine exists, has every declared dependency registered and Completed;
\* no task of a batch depends on a task of the same batch.
C2_DependenciesFirst ==
    entry = "project" =>
        /\ \A t \in Registered :
             (Status(t) # PENDING \/ co[t] # "none") =>
                 \A d \in DepsOf(t) : d \in Registered /\ Status(d) = COMPLETED
        /\ \A a \in Range(batch), b \in Range(batch) : b \notin DepsOf(a)

\* C2 witness: a task with a dependency is executing.
C2_Witness ==
    /\ entry = "project"
    /\ \E t \in Registered :
         /\ Status(t) = IN_PROGRESS
         /\ co[t] = "running"
         /\ DepsOf(t) # {}

\* C3: get_ready_tasks() returns exactly the Pending tasks all of whose
\* dependency ids name Completed tasks; for {A:[], B:[A], C:[A], D:[B,C]}
\* that is A, then B and C once A is Completed, then D once B and C are.
C3_ReadyExactly ==
    /\ Range(get_ready_tasks(task_queue)) =
         {t \in Registered :
             /\ Status(t) = PENDING
             /\ \A d \in DepsOf(t) : d \in Registered /\ Status(d) = COMPLETED}
    /\ (decomposed = ScenarioA /\ Len(task_queue.order) = 4) =>
         LET st == [t \in 1..4 |-> Status(t)] IN
           /\ st = <<PENDING, PENDING, PENDING, PENDING>>
                => get_ready_tasks(task_queue) = <<1>>
           /\ st = <<COMPLETED, PENDING, PENDING, PENDING>>
                => get_ready_tasks(task_queue) = <<2, 3>>
           /\ st = <<COMPLETED, COMPLETED, COMPLETED, PENDING>>
                => get_ready_tasks(task_queue) = <<4>>

\* C3 witness: scenario A after A alone is Completed: B and C are ready, D,
\* whose dependencies are Pending, is not.
C3_Witness ==
    /\ decomposed = ScenarioA
    /\ Len(task_queue.order) = 4
    /\ Status(1) = COMPLETED /\ Status(2) = PENDING
    /\ Status(3) = PENDING /\ Status(4) = PENDING
    /\ get_ready_tasks(task_queue) = <<2, 3>>

\* C4: under any sequence of queue operations a task's status moves only
\* Pending -> InProgress -> {Completed, Failed}.
C4_StatusPath ==
    [][\A t \in Registered :
          task_queue'.tasks[t].status # Status(t) =>
              <<Status(t), task_queue'.tasks[t].status>> \in
                  {<<PENDING, IN_PROGRESS>>, <<IN_PROGRESS, COMPLETED>>,
                   <<IN_PROGRESS, FAILED>>}]_vars

\* C5: a pass that finds no ready task, no InProgress task and an incomplete
\* queue ends execute_project in that very step with status "incomplete",
\* without another execute invocation; once returned nothing runs.
C5_DeadlockStops ==
    [][/\ (/\ pc = "loop"
           /\ get_ready_tasks(task_queue) = <<>>
           /\ CountStatus(task_queue, IN_PROGRESS) = 0
           /\ ~is_complete(task_queue))
          => /\ pc' = "done"
             /\ summary'.status = "incomplete"
             /\ summary'.iterations <= iteration + 1
             /\ exec_calls' = exec_calls
       /\ pc = "done" => exec_calls' = exec_calls]_vars

\* C5 witness: scenario E (every dependency unresolved) has returned
\* "incomplete" after one idle pass although budget was left.
C5_Witness ==
    /\ decomposed = ScenarioE
    /\ pc = "done"
    /\ summary.status = "incomplete"
    /\ summary.iterations = 1
    /\ max_iterations > 1
    /\ \A t \in Ids : exec_calls[t] = 0

\* What C6 says of every state: the pass counter never exceeds the budget,
\* nothing is raised, and a return with unfinished tasks reports
\* "incomplete" with the queue's partial totals.
C6_Safe ==
    /\ iteration <= max_iterations
    /\ raised = None /\ pc # "raised"
    /\ (pc = "done" /\ entry = "project") =>
         /\ summary.iterations <= max_iterations
         /\ summary.tasks_total = Len(decomposed)
         /\ summary.tasks_completed = CountStatus(task_queue, COMPLETED)
         /\ summary.tasks_failed = CountStatus(task_queue, FAILED)
         /\ (\E t \in Registered : Status(t) # COMPLETED)
              => summary.status = "incomplete"

\* C6: execute_project terminates (every execute returning) within
\* max_iterations passes; with the budget exhausted and tasks unfinished it
\* returns "incomplete" with the partial totals and raises nothing.
C6_TerminatesInBudget == []C6_Safe /\ <>(pc = "done")

\* C6 witness: the budget ran out while a ready task was still waiting; the
\* summary is "incomplete" with one task completed.
C6_Witness ==
    /\ entry = "project"
    /\ pc = "done"
    /\ summary.iterations = max_iterations
    /\ summary.status = "incomplete"
    /\ summary.tasks_completed >= 1
    /\ get_ready_tasks(task_queue) # <<>>

\* C7: a failure does not halt the run: when execute_project returns and the
\* budget sufficed (passes were left, or max_iterations is at least the
\* number of tasks), every task whose dependencies all completed has been
\* executed, whatever else failed.
C7_FailureDoesNotHalt ==
    (/\ pc = "done" /\ entry = "project"
     /\ (summary.iterations < max_iterations \/ max_iterations >= Len(decomposed))) =>
        \A t \in Registered :
            (\A d \in DepsOf(t) : d \in Registered /\ Status(d) = COMPLETED)
                => Status(t) \in Terminal /\ exec_calls[t] = 1

\* C7 witness: with one task at a time, task 1 failed and the independent
\* task 2 was still executed, and completed, afterwards.
C7_Witness ==
    /\ entry = "project"
    /\ pc = "done"
    /\ max_parallel = 1
    /\ max_iterations >= Len(decomposed)
    /\ Len(decomposed) >= 2
    /\ Status(1) = FAILED
    /\ Status(2) = COMPLETED /\ exec_calls[2] = 1

\* The executor is executing tasks itself, in batches: execute_project or
\* execute_tasks_parallel was called, not the execute capability on its own.
BatchRun == entry \in ProjectEntries \cup {"parallel"}

\* C8: in a run of the executor, execute is invoked at most once per task
\* id; a task that left Pending never returns to it and a Failed task stays
\* Failed and is not executed again.
C8_NoRetry ==
    [][BatchRun' => \A t \in Ids :
          /\ exec_calls'[t] <= 1
          /\ t \in Registered =>
               /\ Status(t) # PENDING => task_queue'.tasks[t].status # PENDING
               /\ Status(t) = FAILED =>
                    /\ task_queue'.tasks[t].status = FAILED
                    /\ exec_calls'[t] = exec_calls[t]]_vars

\* C8 witness: a run of at least two passes has returned with a Failed task
\* that was executed exactly once.
C8_Witness ==
    /\ entry = "project"
    /\ pc = "done"
    /\ summary.iterations >= 2
    /\ \E t \in Registered : Status(t) = FAILED /\ exec_calls[t] = 1


\* C9: while the executor executes tasks, the step that hands a task's
\* result back makes exactly one terminal queue transition, one
\* pool.mark_task_complete call and one performance event, all with the
\* outcome of execute, the pool call naming the task's assigned worker; no
\* other step touches any of the three.
C9_OneOutcome ==
    [][BatchRun' => \A t \in Ids :
          IF co[t] \in {"returned_ok", "returned_err"} /\ co'[t] = "finished"
          THEN LET ok == co[t] = "returned_ok" IN
                 /\ Status(t) = IN_PROGRESS
                 /\ task_queue'.tasks[t].status = IF ok THEN COMPLETED ELSE FAILED
                 /\ perf_events[t] = <<>> /\ perf_events'[t] = <<ok>>
                 /\ pool_calls[t] = <<>>
                 /\ pool_calls'[t] = <<<<task_queue.tasks[t].assigned_to, ok>>>>
                 /\ SupervisorName \in DOMAIN agent_pool =>
                      /\ agent_pool'[SupervisorName].tasks_completed =
                           agent_pool[SupervisorName].tasks_completed + (IF ok THEN 1 ELSE 0)
                      /\ agent_pool'[SupervisorName].tasks_failed =
                           agent_pool[SupervisorName].tasks_failed + (IF ok THEN 0 ELSE 1)
          ELSE /\ perf_events'[t] = perf_events[t]
               /\ pool_calls'[t] = pool_calls[t]
               /\ t \in Registered =>
                    (task_queue'.tasks[t].status \in Terminal
                        => task_queue'.tasks[t].status = Status(t))]_vars

\* The execute capability called on its own. The call starts one more
\* thread and records nothing; after the thread has ended, the resumed call
\* records one performance event and one pool.mark_task_complete call with
\* the outcome and the worker name the caller gave. The queue, the semaphore
\* and the summary stay as they were.
DirectCallRecordsOutcome ==
    [][entry = "task" =>
          /\ \A t \in Ids :
                /\ exec_calls'[t] # exec_calls[t] =>
                      /\ direct[t] = NoCall /\ direct'[t].state = "running"
                      /\ exec_calls'[t] = exec_calls[t] + 1
                      /\ perf_events' = perf_events /\ pool_calls' = pool_calls
                      /\ agent_pool' = agent_pool
                /\ (perf_events'[t] # perf_events[t] \/ pool_calls'[t] # pool_calls[t]) =>
                      LET ok == direct[t].state = "returned_ok"
                          agent_name == direct[t].agent_name
                      IN /\ direct[t].state \in {"returned_ok", "returned_err"}
                         /\ direct'[t] = NoCall
                         /\ exec_calls' = exec_calls
                         /\ perf_events' = [perf_events EXCEPT ![t] = Append(@, ok)]
                         /\ pool_calls' = [pool_calls EXCEPT ![t] = Append(@, <<agent_name, ok>>)]
                         /\ \A a \in DOMAIN agent_pool :
                               /\ agent_pool'[a].tasks_completed = agent_pool[a].tasks_completed
                                     + (IF a = agent_name /\ ok THEN 1 ELSE 0)
                               /\ agent_pool'[a].tasks_failed = agent_pool[a].tasks_failed
                                     + (IF a = agent_name /\ ~ok THEN 1 ELSE 0)
          /\ task_queue' = task_queue
          /\ semaphore' = semaphore
          /\ summary' = summary]_vars

\* Two direct calls awaited at once: both threads were started before
\* anything was recorded, the second call has returned first (its success
\* recorded under the name its caller gave) and the first, whose thread
\* raised, has yet to resume.
DirectCallWitness ==
    /\ entry = "task"
    /\ exec_calls[1] = 1 /\ exec_calls[2] = 1
    /\ direct[1] = [agent_name |-> SupervisorName, state |-> "returned_err"]
    /\ perf_events[1] = <<>> /\ pool_calls[1] = <<>>
    /\ direct[2] = NoCall
    /\ perf_events[2] = <<TRUE>>
    /\ pool_calls[2] = <<<<"agent1", TRUE>>>>

\* A direct call is suspended: its thread was started and nothing is
\* recorded for it yet.
DirectCallSuspended ==
    /\ entry = "task"
    /\ direct[1].state = "running"
    /\ exec_calls[1] = 1
    /\ perf_events[1] = <<>> /\ pool_calls[1] = <<>>

\* In the batches of execute_project no coroutine waits for the semaphore:
\* each acquires a permit in its first step.
ProjectNeverWaits ==
    entry \in ProjectEntries => \A t \in Ids : co[t] \notin {"waiting", "woken"}

\* The permits of a batch: those left in the semaphore and those held by the
\* coroutines inside `async with` or handed one by release() add up to the
\* limit, also while an exception is on its way out; once it has left
\* asyncio.run every permit is back and no coroutine is left.
PermitsConserved ==
    /\ pc \in {"batch", "stopping"} => semaphore + Cardinality(Holders) = max_parallel
    /\ (pc = "raised" /\ raised = "InvalidTransition") =>
          /\ semaphore = max_parallel
          /\ \A t \in Ids : co[t] = "none"
          /\ \A t \in Registered :
                /\ Len(perf_events[t]) = Len(pool_calls[t])
                /\ Len(perf_events[t]) <= exec_calls[t]
                /\ Status(t) \in {COMPLETED, FAILED} => Len(perf_events[t]) = 1

\* execute_tasks_parallel([1, 2], 2) with task 1 taken by another caller:
\* mark_in_progress(1) was rejected, the coroutine of task 2 still ran its
\* first step (thread started), and then the exception left asyncio.run with
\* task 2 InProgress and nothing recorded for it.
UnwindWitnessStart ==
    /\ entry = "parallel" /\ pc = "raised" /\ raised = "InvalidTransition"
    /\ Len(decomposed) = 2 /\ max_parallel = 2
    /\ Status(1) = IN_PROGRESS /\ Status(2) = IN_PROGRESS
    /\ exec_calls = <<0, 1>>
    /\ perf_events[2] = <<>>
    /\ semaphore = 2

\* execute_tasks_parallel([1, 2, 3], 1) with task 2 taken by another caller:
\* task 1 completed, the coroutine of task 2 was handed the permit and
\* rejected, its release woke the coroutine of task 3, which started its
\* thread before the exception left asyncio.run.
UnwindWitnessWake ==
    /\ entry = "parallel" /\ pc = "raised" /\ raised = "InvalidTransition"
    /\ Len(decomposed) = 3 /\ max_parallel = 1
    /\ Status(1) = COMPLETED /\ Status(2) = IN_PROGRESS /\ Status(3) = IN_PROGRESS
    /\ exec_calls = <<1, 0, 1>>
    /\ perf_events = <<<<TRUE>>, <<>>, <<>>>>
    /\ semaphore = 1

\* A thread that ended while the exception was on its way out: its coroutine
\* resumed, recorded the outcome and completed the task before the loop
\* stopped.
UnwindWitnessResumed ==
    /\ entry = "parallel" /\ pc = "raised" /\ raised = "InvalidTransition"
    /\ Len(decomposed) = 2 /\ max_parallel = 2
    /\ Status(1) = IN_PROGRESS /\ Status(2) = COMPLETED
    /\ exec_calls = <<0, 1>>
    /\ perf_events[2] = <<TRUE>>

\* C9 witness: one task has Completed and one has Failed, each with its
\* single matching event and pool call.
C9_Witness ==
    \E a \in Registered, b \in Registered :
        /\ Status(a) = COMPLETED /\ perf_events[a] = <<TRUE>>
        /\ pool_calls[a] = <<<<SupervisorName, TRUE>>>>
        /\ Status(b) = FAILED /\ perf_events[b] = <<FALSE>>
        /\ pool_calls[b] = <<<<SupervisorName, FALSE>>>>

\* ceil(n / p)
CeilDiv(n, p) == (n + p - 1) \div p

\* C10: N tasks without dependencies, max_parallel = p, max_iterations >=
\* ceil(N/p), every execution succeeding: execute_project returns
\* tasks_completed = N, status "completed" and iterations = ceil(N/p).
C10_IndependentBatches ==
    (/\ pc = "done" /\ entry = "project"
     /\ \A i \in Ids : decomposed[i].dependencies = {}
     /\ \A i \in Ids : FALSE \notin Range(perf_events[i])
     /\ max_iterations >= CeilDiv(Len(decomposed), max_parallel))
    => /\ summary.tasks_total = Len(decomposed)
       /\ summary.tasks_completed = Len(decomposed)
       /\ summary.tasks_failed = 0
       /\ summary.status = "completed"
       /\ summary.iterations = CeilDiv(Len(decomposed), max_parallel)

\* C10 witness: scenario B, five independent tasks two at a time, has
\* completed in three batches.
C10_Witness ==
    /\ decomposed = ScenarioB
    /\ max_parallel = 2
    /\ pc = "done"
    /\ summary.tasks_completed = 5
    /\ summary.status = "completed"
    /\ summary.iterations = 3

\* ------------------------------------------------------------------ C11
\* The tasks of the queue that hold a given status, counted from the queue
\* itself.
TasksWith(s) == {t \in Registered : Status(t) = s}

\* C11: the summary returned by execute_project agrees with the queue at
\* return: tasks_total is the number of registered tasks, tasks_completed and
\* tasks_failed are the numbers of Completed and Failed tasks, their sum is at
\* most tasks_total, and status is "completed" exactly when every task is
\* Completed and "incomplete" otherwise.
C11_SummaryConsistent ==
    (entry = "project" /\ pc = "done") =>
        /\ summary.tasks_total = Cardinality(Registered)
        /\ summary.tasks_completed = Cardinality(TasksWith(COMPLETED))
        /\ summary.tasks_failed = Cardinality(TasksWith(FAILED))
        /\ summary.tasks_completed + summary.tasks_failed <= summary.tasks_total
        /\ summary.status \in {"completed", "incomplete"}
        /\ summary.status = "completed" <=> TasksWith(COMPLETED) = Registered

\* C11 witness: a run has returned with one task Failed, one Completed and one
\* never started, so the summary says "incomplete" although no task is left
\* in progress.
C11_Witness ==
    /\ entry = "project" /\ pc = "done"
    /\ summary.tasks_total = 3
    /\ summary.tasks_completed = 1
    /\ summary.tasks_failed = 1
    /\ summary.status = "incomplete"
    /\ TasksWith(IN_PROGRESS) = {}

\* C11 second case: every task Completed and the summary says "completed".
C11_WitnessCompleted ==
    /\ entry = "project" /\ pc = "done"
    /\ summary.tasks_total = 3
    /\ summary.tasks_completed = 3
    /\ summary.status = "completed"


\* ------------------------------------------------------------------ C12
\* Two subtasks of the decomposition carry the same id.
HasDuplicateIds ==
    \E i, j \in 1..Len(decomposed) :
        i < j /\ decomposed[i].task_id = decomposed[j].task_id

\* What escapes the executor: nothing, or the duplicate id of a decomposition
\* that repeats one, raised while registering and before any execute call, or
\* the wrong-state transition of a task handed to execute_tasks_parallel
\* that another caller had taken, which the executor never ran.
C12_OnlyDefinitional ==
    entry \in {"project", "parallel"} =>
        /\ raised \in {None, "DuplicateTask", "InvalidTransition"}
        /\ (raised # None) <=> (pc = "raised")
        /\ raised = "DuplicateTask" =>
              /\ HasDuplicateIds
              /\ \A t \in Ids : exec_calls[t] = 0
        /\ raised = "InvalidTransition" =>
              /\ entry = "parallel"
              /\ \E t \in Registered : Status(t) = IN_PROGRESS /\ exec_calls[t] = 0
        /\ (pc = "done" /\ entry = "project") =>
              summary.status \in {"completed", "incomplete"}

\* The step that takes a failed execute outcome of t back into the coroutine.
C12_FailureAbsorbed(t) ==
    (co[t] = "returned_err" /\ co'[t] = "finished") =>
        /\ task_queue'.tasks[t].status = FAILED
        /\ task_queue'.tasks[t].error = "error"
        /\ perf_events'[t] = Append(perf_events[t], FALSE)
        /\ raised' = None
        /\ pc' = pc

\* C12: an error raised or a failure reported by the execute capability never
\* leaves the executor: it becomes a success-false result, the task becomes
\* Failed with the error recorded, the run goes on to return a structured
\* summary, and the only exception that escapes is a definitional one (here a
\* duplicate task id).
C12_ErrorsAbsorbed ==
    /\ []C12_OnlyDefinitional
    /\ [][\A t \in Ids : C12_FailureAbsorbed(t)]_vars

\* C12 witness: execute_project has returned a summary counting a task whose
\* execute invocation failed, and nothing was raised.
C12_Witness ==
    /\ entry = "project" /\ pc = "done"
    /\ raised = None
    /\ summary.tasks_failed >= 1
    /\ \E t \in Registered :
          /\ Status(t) = FAILED
          /\ task_queue.tasks[t].error = "error"
          /\ perf_events[t] = <<FALSE>>

\* C12 second case: a decomposition repeating an id has raised.
C12_WitnessDefinitional ==
    /\ entry = "project" /\ pc = "raised"
    /\ raised = "DuplicateTask"
    /\ HasDuplicateIds


\* ------------------------------------------------------------------ C13
\* The fields of a Completed task that a later call must not touch.
CompletedRecord(q, id) ==
    <<q.tasks[id].status, q.tasks[id].result, q.tasks[id].completed_at>>

\* C13: mark_complete on a task that is already Completed is rejected: the
\* call fails and leaves the queue, so the task's status, result and
\* completion time, as it was; no other call changes them either; and the
\* completed count of get_status_summary, which is the number of Completed
\* tasks, does not change with it.
C13_NoDoubleCompletion ==
    /\ [](get_status_summary(task_queue).completed =
              Cardinality(TasksWith(COMPLETED)))
    /\ [][\A id \in Registered :
             Status(id) = COMPLETED =>
                 /\ CompletedRecord(task_queue', id) = CompletedRecord(task_queue, id)
                 /\ \A res \in Results :
                       \/ raised' = "InvalidTransition" /\ task_queue' = task_queue
                       \/ ~QMarkComplete(id, res)]_vars

\* C13 witness: the only task of the queue was completed with one result and
\* a further call on it has just been rejected, the result kept.
C13_Witness ==
    /\ entry = "queue"
    /\ task_queue.order = <<1>>
    /\ Status(1) = COMPLETED
    /\ task_queue.tasks[1].result = "result"
    /\ task_queue.tasks[1].completed_at = Now
    /\ get_status_summary(task_queue).completed = 1
    /\ raised = "InvalidTransition"

\* ------------------------------------------------------------------ C14
\* C14: a queue transition requested from the wrong source state is rejected
\* and leaves the queue unchanged: mark_in_progress when the task is absent
\* or not Pending, mark_complete and mark_failed when the task is absent or
\* not InProgress, a task that is still Pending included.
C14_WrongStateRejected ==
    [][\A id \in {Ghost} \cup Ids :
          /\ (QMarkInProgress(id) /\ ~(QHas(task_queue, id) /\ Status(id) = PENDING))
                => (raised' # None /\ task_queue' = task_queue)
          /\ \A res \in Results :
                (QMarkComplete(id, res)
                    /\ ~(QHas(task_queue, id) /\ Status(id) = IN_PROGRESS))
                => (raised' # None /\ task_queue' = task_queue)
          /\ (QMarkFailed(id) /\ ~(QHas(task_queue, id) /\ Status(id) = IN_PROGRESS))
                => (raised' # None /\ task_queue' = task_queue)]_vars


\* ------------------------------------------------------------------ C15
\* What add_task stored for a task and no later call may replace: the
\* description stands with the id, the dependencies are kept as given.
Registration(q, id) == <<q.tasks[id].task_id, q.tasks[id].dependencies>>

\* The first subtask of the decomposition that carries the id.
FirstWithId(id) ==
    decomposed[CHOOSE i \in 1..Len(decomposed) :
                  /\ decomposed[i].task_id = id
                  /\ \A j \in 1..(i - 1) : decomposed[j].task_id # id]

\* add_task called with an id the queue holds: DuplicateTask, queue untouched.
C15_AddRejected ==
    \A i \in Ids :
        (QAddTask(i) /\ QHas(task_queue, decomposed[i].task_id)) =>
            /\ raised' = "DuplicateTask"
            /\ task_queue' = task_queue

\* execute_project handed a decomposition that repeats an id: it raises, and
\* what it registered before the repeat is what the first occurrences gave.
C15_DecomposeRaises ==
    (pc = "start" /\ entry = "project" /\ entry' = "project" /\ HasDuplicateIds) =>
        /\ pc' = "raised"
        /\ raised' = "DuplicateTask"
        /\ summary' = NoSummary
        /\ \A t \in Range(task_queue'.order) :
              task_queue'.tasks[t].dependencies = FirstWithId(t).dependencies

\* C15: add_task with an id already in the queue fails with DuplicateTask and
\* leaves the existing task and the task count as they were; no call ever
\* replaces a registered task or lists an id twice; so a decomposition with
\* duplicate ids makes execute_project raise instead of overwriting.
C15_DuplicateRejected ==
    /\ [](Cardinality(Registered) = Len(task_queue.order))
    /\ [][/\ C15_AddRejected
          /\ C15_DecomposeRaises
          /\ \A t \in Registered :
                Registration(task_queue', t) = Registration(task_queue, t)
          /\ (raised' = "DuplicateTask" /\ raised # "DuplicateTask") =>
                (entry = "queue" => task_queue' = task_queue)]_vars

\* C15 witness: a queue that holds a task in progress has just rejected a
\* second add_task of its id.
C15_Witness ==
    /\ entry = "queue"
    /\ raised = "DuplicateTask"
    /\ \E t \in Registered : Status(t) = IN_PROGRESS
    /\ Len(task_queue.order) < Len(decomposed)

\* C15 second case: execute_project has raised on a repeated id after
\* registering two tasks, the first of them with its own dependencies.
C15_WitnessProject ==
    /\ entry = "project" /\ pc = "raised"
    /\ raised = "DuplicateTask"
    /\ decomposed = <<SubTask(1, {}), SubTask(2, {1}), SubTask(1, {2})>>
    /\ task_queue.order = <<1, 2>>
    /\ DepsOf(1) = {}


\* ------------------------------------------------------------------ C16
\* C16: after any sequence of queue operations is_complete() is true exactly
\* when every task of the queue is Completed; one Pending, InProgress or
\* Failed task makes it false.
C16_CompleteIffAllCompleted ==
    /\ is_complete(task_queue) <=>
           Cardinality(TasksWith(COMPLETED)) = Len(task_queue.order)
    /\ \A t \in Registered :
           Status(t) \in {PENDING, IN_PROGRESS, FAILED} => ~is_complete(task_queue)

\* C16 witness: two tasks added and completed, as in test_is_complete_true.
C16_Witness ==
    /\ entry = "queue"
    /\ task_queue.order = <<1, 2>>
    /\ Status(1) = COMPLETED /\ Status(2) = COMPLETED
    /\ is_complete(task_queue)

\* C16 second case: every task is terminal and one of them Failed.
C16_WitnessFailed ==
    /\ entry = "queue"
    /\ task_queue.order = <<1, 2>>
    /\ Status(1) = COMPLETED /\ Status(2) = FAILED
    /\ ~is_complete(task_queue)


\* ------------------------------------------------------------------ C17
\* The five per-status counts of a status summary, added up.
BucketSum(s) == s.pending + s.in_progress + s.completed + s.failed + s.blocked

\* The step is an add_task call that registered its task.
Added == \E i \in Ids : QAddTask(i) /\ raised' = None

\* C17: after any sequence of queue operations the pending, in_progress,
\* completed, failed and blocked counts of get_status_summary() sum to its
\* total, and the total is the number of tasks ever added: it starts at zero,
\* grows by one with each accepted add_task and never changes otherwise.
C17_CountsSumToTotal ==
    /\ [](LET s == get_status_summary(task_queue) IN
            /\ BucketSum(s) = s.total
            /\ s.total = Len(task_queue.order)
            /\ (task_queue = EmptyQueue => s.total = 0))
    /\ [][Len(task_queue'.order) =
             Len(task_queue.order) + (IF Added THEN 1 ELSE 0)]_vars

\* C17 witness: one task in each bucket but "completed" and a blocked one
\* beside a pending one: three tasks, of which one waits for an id never
\* added.
C17_Witness ==
    /\ entry = "queue"
    /\ decomposed = Forward
    /\ LET s == get_status_summary(task_queue) IN
         /\ s.total = 3
         /\ s.pending = 1
         /\ s.failed = 1
         /\ s.blocked = 1

\* C17 second case: the counts of test_get_status_summary.
C17_WitnessTest ==
    /\ entry = "queue"
    /\ get_status_summary(task_queue) =
          [total |-> 3, pending |-> 1, in_progress |-> 1, completed |-> 1,
           failed |-> 0, blocked |-> 0]


\* ------------------------------------------------------------------ C18
\* The tasks of the queue with a dependency id that names no task of it.
Unresolved == {t \in Registered : \E d \in DepsOf(t) : d \notin Registered}

\* The step is a caller's own transition call naming t.
CalledOn(t) ==
    \/ QMarkInProgress(t)
    \/ QMarkFailed(t)
    \/ \E res \in Results : QMarkComplete(t, res)

C18_NeverReady ==
    \A t \in Unresolved :
        /\ t \notin Range(get_ready_tasks(task_queue))
        /\ last_ready # NotQueried => t \notin Range(last_ready)
        /\ Status(t) = PENDING =>
              /\ ~is_complete(task_queue)
              /\ IsBlocked(task_queue, t)
              /\ get_status_summary(task_queue).blocked >= 1
        /\ entry \in {"project", "parallel"} =>
              /\ Status(t) = PENDING
              /\ exec_calls[t] = 0
              /\ co[t] = "none"

C18_NeverDropped ==
    /\ Registered \subseteq Range(task_queue'.order)
    /\ \A t \in Unresolved :
          task_queue'.tasks[t].status # Status(t) => (entry = "queue" /\ CalledOn(t))

\* C18: a task with a dependency id absent from the queue is never returned
\* by get_ready_tasks() while the id stays absent, and it is never removed:
\* it keeps is_complete() false and is counted by get_status_summary() as long
\* as it is Pending, and it stays Pending in every run of the executor; only a
\* caller's own transition call on it changes its status.
C18_BlockedStays ==
    /\ []C18_NeverReady
    /\ [][C18_NeverDropped]_vars

\* C18 witness: scenario E, every task waiting for an id never registered:
\* execute_project has returned "incomplete" with all three tasks Pending and
\* not one execute call.
C18_Witness ==
    /\ entry = "project" /\ pc = "done"
    /\ decomposed = ScenarioE
    /\ Unresolved = {1, 2, 3}
    /\ \A t \in Unresolved : Status(t) = PENDING /\ exec_calls[t] = 0
    /\ summary.status = "incomplete"
    /\ summary.tasks_total = 3
    /\ get_status_summary(task_queue).blocked = 3

\* C18 second case: a caller asked for the ready tasks while the third task
\* waited for an id never added, and got the first task alone.
C18_WitnessQueue ==
    /\ entry = "queue"
    /\ decomposed = Forward
    /\ task_queue.order = <<1, 2, 3>>
    /\ Status(2) = COMPLETED
    /\ Unresolved = {3}
    /\ last_ready = <<1>>


\* ------------------------------------------------------------------ C19
\* The place of a task in the order in which add_task registered the tasks.
AddedAt(t) == CHOOSE k \in 1..Len(task_queue.order) : task_queue.order[k] = t

\* What the caller holds is what the queue would answer now, each ready task
\* once, in the order in which the tasks were added.
C19_StableOrder ==
    last_ready # NotQueried =>
        /\ last_ready = get_ready_tasks(task_queue)
        /\ Range(last_ready) =
              {t \in Registered :
                  /\ Status(t) = PENDING
                  /\ \A d \in DepsOf(t) : d \in Registered /\ Status(d) = COMPLETED}
        /\ \A i, j \in 1..Len(last_ready) :
              i < j => AddedAt(last_ready[i]) < AddedAt(last_ready[j])

\* C19: get_ready_tasks() is a pure query with a stable order: a call changes
\* no task and no queue state, it lists the ready tasks in the order in which
\* add_task added them, and a second call with no mutation in between
\* returns the same sequence.
C19_PureQuery ==
    /\ []C19_StableOrder
    /\ [][QGetReady =>
             /\ task_queue' = task_queue
             /\ raised' = raised
             /\ (last_ready # NotQueried => last_ready' = last_ready)]_vars

\* C19 witness: tasks 3, 1, 2 were added in that order and the caller was
\* answered <<3, 2>>: insertion order, not id order, task 1 waiting for 3.
C19_Witness ==
    /\ entry = "queue"
    /\ task_queue.order = <<3, 1, 2>>
    /\ last_ready = <<3, 2>>
    /\ Status(1) = PENDING


\* ------------------------------------------------------------------ C20
\* The worker the queue records for a task.
AssignedTo(t) == task_queue.tasks[t].assigned_to

\* C20 as stated: for each task the executor selects, a worker is picked from
\* and assigned through the AgentPool before the task is marked in progress:
\* every InProgress task's assigned worker is a pool worker whose current
\* assignment is that task, so no two tasks InProgress at the same time share
\* a worker.
C20_PoolAssigned ==
    /\ \A t \in TasksWith(IN_PROGRESS) :
          /\ AssignedTo(t) \in DOMAIN agent_pool
          /\ agent_pool[AssignedTo(t)].current_task # None
          /\ agent_pool[AssignedTo(t)].current_task = t
    /\ \A t, u \in TasksWith(IN_PROGRESS) : t # u => AssignedTo(t) # AssignedTo(u)

\* What execute_with_semaphore does, recorded next to C20: every task the
\* executor marks in progress is assigned the fixed worker name "supervisor",
\* whatever the pool's roster; no pool worker ever holds a current
\* assignment, and the pool is only told, by that same name, that a task the
\* executor executed has ended.
C20_FixedSupervisor ==
    /\ \A t \in Registered :
          AssignedTo(t) = (IF Status(t) = PENDING THEN None ELSE SupervisorName)
    /\ \A a \in DOMAIN agent_pool : agent_pool[a].current_task = None
    /\ BatchRun =>
          \A t \in Ids : \A k \in 1..Len(pool_calls[t]) :
             pool_calls[t][k][1] = SupervisorName

\* The state that violates C20: two tasks are InProgress at the same time,
\* both assigned to "supervisor", the pool's roster being empty.
C20_Witness ==
    /\ entry = "project"
    /\ DOMAIN agent_pool = {}
    /\ \E t, u \in TasksWith(IN_PROGRESS) :
          /\ t # u
          /\ AssignedTo(t) = SupervisorName
          /\ AssignedTo(u) = SupervisorName
          /\ co[t] = "running" /\ co[u] = "running"


\* ------------------------------------------------------------------ C21
\* C21: each execute_project run works on a fresh, empty TaskQueue: when
\* execute_project is called a second time on the same executor none of the
\* first run's tasks are visible: the queue is empty when the call starts,
\* ids reused from the first run are not treated as duplicates, and
\* tasks_total counts the second decomposition only.
C21_FreshQueuePerRun ==
    entry = "rerun" =>
        /\ pc = "start" => task_queue = EmptyQueue
        /\ raised = None /\ pc # "raised"
        /\ pc = "done" => summary.tasks_total = Len(decomposed)

\* The second call has started on a queue that still holds the first run's
\* Completed task.
C21_SecondRunSeesFirst ==
    /\ entry = "rerun" /\ pc = "start"
    /\ \E t \in Registered : Status(t) = COMPLETED


\* ------------------------------------------------------------------ C22
\* C22: after each executed batch of a project run the executor reports into
\* the QualityMonitor: the step that ends the batch records one iteration
\* (record_iteration) and hands every output of the batch to detect_loop, and
\* the run raises nothing on account of the monitor.
C22_MonitorInformed ==
    [][(pc = "batch" /\ pc' = "loop") =>
          /\ Len(monitor'.iteration_history) = Len(monitor.iteration_history) + 1
          /\ \A t \in Range(batch) : \E out \in Results : <<t, out>> \in passed'
          /\ raised' = None]_vars

\* A project run has executed batches to its end and its monitor has heard of
\* no iteration and of no output.
C22_BatchesUnreported ==
    /\ entry = "project" /\ pc = "done" /\ iteration >= 2
    /\ \E t \in Registered : Status(t) = COMPLETED
    /\ monitor.iteration_history = <<>>
    /\ passed = {}


\* ------------------------------------------------------------------ C27
\* The outputs handed to the monitor so far for one task id.
PassedFor(task_id) == {p \in passed : p[1] = task_id}

\* C27: check_output_similarity(task_id, output) returns 1.0 exactly when the
\* same output was passed earlier for the same task id and 0.0 otherwise, an
\* output seen only under another task id gives 0.0, and a task's stored
\* hashes hold each output passed for it once.
C27_ExactRepeatOnly ==
    /\ [](\A t \in DOMAIN monitor.output_hashes :
             /\ Len(monitor.output_hashes[t]) = Cardinality(PassedFor(t))
             /\ \A o \in Outputs :
                   <<t, o>> \in passed <=> Sha256(o) \in Range(monitor.output_hashes[t]))
    /\ [][\A t \in MonitorTasks, o \in Outputs :
             (/\ answer'.call = "check_output_similarity"
              /\ answer'.args = <<t, o>>
              /\ CheckSimilarity(t, o)) =>
                 /\ answer'.value = IF <<t, o>> \in passed THEN 100 ELSE 0
                 /\ <<t, o>> \in passed =>
                        monitor'.output_hashes[t] = monitor.output_hashes[t]]_vars

\* The output was passed for task1 only and is then checked under task2:
\* the answer is 0.0.
C27_Witness ==
    /\ answer.call = "check_output_similarity"
    /\ answer.args = <<"task2", "output">>
    /\ answer.value = 0
    /\ <<"task1", "output">> \in passed
    /\ Len(monitor.output_hashes["task1"]) = 1

\* The same output was passed twice for task1: the answer is 1.0 and one
\* hash is stored.
C27_WitnessRepeat ==
    /\ answer.call = "check_output_similarity"
    /\ answer.args = <<"task1", "output">>
    /\ answer.value = 100
    /\ monitor.output_hashes["task1"] = <<Sha256("output")>>

\* ------------------------------------------------------------------ C28
\* C28: detect_loop(task_id, output) is true exactly when the similarity of
\* the output (1.0 for an output passed before for that task id, else 0.0) is
\* at least the configured threshold; with the default threshold 0.95 the
\* first call with an output for a task id is false and every later call with
\* the same output for that task id is true.
C28_LoopIffThreshold ==
    [][\A t \in MonitorTasks, o \in Outputs :
          (/\ answer'.call = "detect_loop"
           /\ answer'.args = <<t, o>>
           /\ DetectLoop(t, o)) =>
              /\ answer'.value =
                     ((IF <<t, o>> \in passed THEN 100 ELSE 0)
                          >= monitor.similarity_threshold)
              /\ monitor.similarity_threshold = 95 =>
                     answer'.value = (<<t, o>> \in passed)]_vars

\* With the default threshold a repeated output for task1 was reported as a
\* loop.
C28_Witness ==
    /\ monitor.similarity_threshold = 95
    /\ answer.call = "detect_loop"
    /\ answer.args = <<"task1", "output">>
    /\ answer.value = TRUE
    /\ monitor.output_hashes["task1"] = <<Sha256("output")>>

\* With the threshold at 1.0 a repeated output is a loop as well.
C28_WitnessAtThreshold ==
    /\ monitor.similarity_threshold = 100
    /\ answer.call = "detect_loop"
    /\ answer.value = TRUE


\* ------------------------------------------------------------------ C29
\* C29: whenever fewer than 2 iterations have been recorded, should_continue
\* returns (true, "insufficient_data"), whatever its iteration argument, the
\* window and the improvement threshold.
C29_InsufficientData ==
    (answer.call = "should_continue" /\ Len(monitor.iteration_history) < 2) =>
        /\ answer.value.continue = TRUE
        /\ answer.value.reason = "insufficient_data"

\* One iteration is recorded, the window is 1, and should_continue(3) was
\* asked.
C29_Witness ==
    /\ answer.call = "should_continue"
    /\ answer.args = <<3>>
    /\ Len(monitor.iteration_history) = 1
    /\ monitor.coverage_history = <<7000>>
    /\ monitor.max_iterations_without_improvement = 1
    /\ answer.value.reason = "insufficient_data"

\* ------------------------------------------------------------------ C30
\* The coverage samples on record and the length of the window.
Samples == monitor.coverage_history
Window == monitor.max_iterations_without_improvement

\* Every coverage delta between consecutive samples among the last Window
\* samples is below min_coverage_improvement. The deltas are those of the
\* doubles the program holds: a delta whose decimals differ by exactly the
\* threshold can come out below it (70.05 - 70.0 against 0.05).
DeltasBelow ==
    \A i \in 1..(Len(Samples) - 1) :
        i >= Len(Samples) - Window + 1 =>
            ImprovementBelow(Samples[i], Samples[i + 1], monitor.min_coverage_improvement)

\* C30 as stated: once at least 2 iterations are recorded, should_continue
\* returns false exactly when every coverage delta among the last Window
\* coverage samples is below min_coverage_improvement, and true otherwise.
C30_StopIffDeltasBelow ==
    (answer.call = "should_continue" /\ Len(monitor.iteration_history) >= 2) =>
        (answer.value.continue = FALSE <=> DeltasBelow)

\* C30: once at least 2 iterations are recorded, should_continue returns
\* false exactly when at least Window coverage samples are on record and every
\* coverage delta among the last Window of them is below
\* min_coverage_improvement; the reason is then "No coverage improvement in
\* <Window> iterations"; otherwise it returns (true, "quality_improving").
C30_StopIffWindowFullAndFlat ==
    (answer.call = "should_continue" /\ Len(monitor.iteration_history) >= 2) =>
        /\ answer.value.continue = FALSE <=> (Len(Samples) >= Window /\ DeltasBelow)
        /\ answer.value.continue = FALSE =>
               /\ answer.value.reason = "No coverage improvement"
               /\ answer.value.quoted = Window
        /\ answer.value.continue = TRUE => answer.value.reason = "quality_improving"

\* Scenario C: coverage 70.0, 70.01, 70.02, 70.03 with threshold 0.05 and
\* window 3 gives (false, "No coverage improvement ...").
C30_Witness ==
    /\ answer.call = "should_continue"
    /\ Samples = <<7000, 7001, 7002, 7003>>
    /\ monitor.min_coverage_improvement = 5
    /\ Window = 3
    /\ answer.value.continue = FALSE
    /\ answer.value.reason = "No coverage improvement"

\* Two flat samples with a window of 3: the run continues.
C30_WitnessShortHistory ==
    /\ answer.call = "should_continue"
    /\ Samples = <<7000, 7001>>
    /\ monitor.min_coverage_improvement = 5
    /\ Window = 3
    /\ answer.value.continue = TRUE
    /\ answer.value.reason = "quality_improving"

\* A delta equal to the threshold counts as an improvement: 75.0 - 70.0 is
\* not below 5.0.
C30_WitnessAtThreshold ==
    /\ answer.call = "should_continue"
    /\ Samples = <<7000, 7000, 7500>>
    /\ monitor.min_coverage_improvement = 500
    /\ Window = 3
    /\ answer.value.continue = TRUE

\* A delta whose decimals differ by the threshold, computed below it:
\* 70.05 - 70.0 is 0.04999999999999716, below 0.05, and the run stops.
C30_WitnessRounding ==
    /\ answer.call = "should_continue"
    /\ Samples = <<7000, 7005>>
    /\ monitor.min_coverage_improvement = 5
    /\ Window = 2
    /\ answer.value.continue = FALSE
    /\ answer.value.reason = "No coverage improvement"


\* ------------------------------------------------------------------ C23
\* C23: assign_task_to_agent fails when the worker is not in the roster or
\* already has an assignment, and a failed call leaves every worker's
\* assignment and counters as they were; a call that succeeds gives the task
\* to a worker that had none and changes no other worker. Every worker so
\* holds at most one task, and busy and available workers add up to the
\* roster.
C23_OneAssignment ==
    /\ [](/\ \A a \in DOMAIN agent_pool :
                agent_pool[a].current_task \in PoolTasks \cup {None}
          /\ get_pool_status(agent_pool).available + get_pool_status(agent_pool).busy
                = Len(roster))
    /\ [][\A t \in PoolTasks, n \in AgentNames :
             (/\ answer'.call = "assign_task_to_agent"
              /\ answer'.args = <<t, n>>
              /\ AssignTask(t, n)) =>
                 IF n \notin DOMAIN agent_pool \/ agent_pool[n].current_task # None
                 THEN answer'.value = FALSE /\ agent_pool' = agent_pool
                 ELSE /\ answer'.value = TRUE
                      /\ agent_pool'[n].current_task = t
                      /\ \A b \in DOMAIN agent_pool \ {n} :
                            agent_pool'[b] = agent_pool[b]]_vars

\* agent1 holds task1 and a call giving it task2 has failed.
C23_Witness ==
    /\ answer.call = "assign_task_to_agent"
    /\ answer.args = <<"task2", "agent1">>
    /\ answer.value = FALSE
    /\ "agent1" \in DOMAIN agent_pool
    /\ agent_pool["agent1"].current_task = "task1"

\* A call naming a worker that is not in the roster has failed.
C23_WitnessUnknown ==
    /\ answer.call = "assign_task_to_agent"
    /\ answer.args[2] = "agent2"
    /\ answer.value = FALSE
    /\ DOMAIN agent_pool = {"agent1"}

\* ------------------------------------------------------------------ C24
\* C24: mark_task_complete(worker, success) on a worker of the roster leaves
\* it without assignment and adds one to exactly one of its counters,
\* tasks_completed when success is true and tasks_failed otherwise; no other
\* worker changes.
C24_ReleaseAndCount ==
    [][\A n \in AgentNames, s \in BOOLEAN :
          (/\ answer'.call = "mark_task_complete"
           /\ answer'.args = <<n, s>>
           /\ n \in DOMAIN agent_pool
           /\ MarkTaskComplete(n, s)) =>
              /\ agent_pool'[n].current_task = None
              /\ n \in get_available_agents(agent_pool')
              /\ agent_pool'[n].tasks_completed =
                     agent_pool[n].tasks_completed + (IF s THEN 1 ELSE 0)
              /\ agent_pool'[n].tasks_failed =
                     agent_pool[n].tasks_failed + (IF s THEN 0 ELSE 1)
              /\ \A b \in DOMAIN agent_pool \ {n} : agent_pool'[b] = agent_pool[b]]_vars

\* agent1 was released with a failure after a success while agent2 keeps its
\* task.
C24_Witness ==
    /\ answer.call = "mark_task_complete"
    /\ answer.args = <<"agent1", FALSE>>
    /\ DOMAIN agent_pool = AgentNames
    /\ agent_pool["agent1"] =
           [current_task |-> None, tasks_completed |-> 1, tasks_failed |-> 1]
    /\ agent_pool["agent2"].current_task = "task2"

\* ------------------------------------------------------------------ C25
\* The workers find_best_agent may return, as indices of the roster: those
\* with no assignment that declare at least one required capability.
Candidates(req) ==
    {i \in DOMAIN roster :
        /\ agent_pool[roster[i].name].current_task = None
        /\ roster[i].capabilities \cap req # {}}
Declared(i, req) == Cardinality(roster[i].capabilities \cap req)
Completed(i) == agent_pool[roster[i].name].tasks_completed
Finished(i) == Completed(i) + agent_pool[roster[i].name].tasks_failed + 1

\* Worker i scores strictly above worker j: more required capabilities, or
\* as many and a higher completed / (completed + failed + 1).
Outscores(i, j, req) ==
    \/ Declared(i, req) > Declared(j, req)
    \/ /\ Declared(i, req) = Declared(j, req)
       /\ Completed(i) * Finished(j) > Completed(j) * Finished(i)

\* The workers the selection rule admits: a candidate that no candidate
\* outscores and that is declared before every candidate of the same score.
Admitted(req) ==
    {i \in Candidates(req) :
        \A j \in Candidates(req) \ {i} :
            /\ ~Outscores(j, i, req)
            /\ ~Outscores(i, j, req) => i < j}

\* C25, the part on determinism: for every roster, history of assignments
\* and outcomes, and set of required capabilities, the selection rule admits
\* exactly one worker when there is a candidate and none otherwise, and
\* find_best_agent returns that worker: identical roster, history and
\* arguments leave the rule no choice. (Whether a call changes the pool is
\* not settled here: the specification describes the value find_best_agent
\* returns and no effect, and FindBestAgent follows it.)
C25_RuleAdmitsOne ==
    pc = "pool" =>
        \A req \in SUBSET Capabilities :
            /\ Cardinality(Admitted(req)) = (IF Candidates(req) = {} THEN 0 ELSE 1)
            /\ \A i \in Admitted(req) :
                  find_best_agent(agent_pool, roster, req) = roster[i].name
            /\ Admitted(req) = {} =>
                  find_best_agent(agent_pool, roster, req) = None

\* Two available workers tie on both parts of the score (one capability
\* each, one success and no failure each): the rule admits only the first
\* declared, and that is the worker a call has just returned.
C25_Witness ==
    /\ answer.call = "find_best_agent"
    /\ answer.args[1] = {"python"}
    /\ Len(roster) = 2
    /\ Candidates({"python"}) = {1, 2}
    /\ ~Outscores(1, 2, {"python"}) /\ ~Outscores(2, 1, {"python"})
    /\ Completed(1) = 1 /\ Completed(2) = 1
    /\ Admitted({"python"}) = {1}
    /\ answer.value = roster[1].name

\* ------------------------------------------------------------------ C26
\* C26: find_best_agent(required) returns "none found" when no worker
\* without assignment declares any required capability; otherwise it returns
\* such a worker that none of them outscores, and of several with that score
\* the one declared first.
C26_BestAvailable ==
    answer.call = "find_best_agent" =>
        LET req == answer.args[1]
        IN IF Candidates(req) = {}
           THEN answer.value = None
           ELSE \E i \in Candidates(req) :
                   /\ answer.value = roster[i].name
                   /\ \A j \in Candidates(req) :
                         /\ ~Outscores(j, i, req)
                         /\ ~Outscores(i, j, req) => i <= j

\* The worker declared second was found: it declares as many required
\* capabilities as the first and has the better ratio.
C26_Witness ==
    /\ answer.call = "find_best_agent"
    /\ Len(roster) = 2
    /\ Candidates(answer.args[1]) = {1, 2}
    /\ answer.value = roster[2].name
    /\ Declared(1, answer.args[1]) = Declared(2, answer.args[1])
    /\ Completed(1) > 0

\* Two available workers with the same score: the first declared is found.
C26_WitnessTie ==
    /\ answer.call = "find_best_agent"
    /\ roster = <<AgentDefinition("agent2", {"python"}),
                  AgentDefinition("agent1", {"python", "testing"})>>
    /\ answer.args[1] = {"python"}
    /\ Completed(1) = 1 /\ Finished(1) = 2 /\ Completed(2) = 1 /\ Finished(2) = 2
    /\ Candidates({"python"}) = {1, 2}
    /\ answer.value = "agent2"

\* The more capable worker is busy: the other one is found; and nobody is
\* found when the only capable worker is busy.
C26_WitnessBusy ==
    /\ answer.call = "find_best_agent"
    /\ answer.args[1] = {"python"}
    /\ Len(roster) = 2
    /\ roster[1].capabilities = {"python"}
    /\ roster[2].capabilities = {}
    /\ agent_pool[roster[1].name].current_task # None
    /\ answer.value = None


\* ------------------------------------------------------------------ C31
\* The coverage samples the trend is computed over: the last 3, or all of
\* them when there are fewer.
TrendSamples ==
    IF Len(Samples) <= 3 THEN Samples ELSE SubSeq(Samples, Len(Samples) - 2, Len(Samples))
Rises == {i \in 1..(Len(TrendSamples) - 1) : TrendSamples[i + 1] > TrendSamples[i]}
Falls == {i \in 1..(Len(TrendSamples) - 1) : TrendSamples[i + 1] < TrendSamples[i]}
Steps == 1..(Len(TrendSamples) - 1)

\* C31: whenever get_quality_metrics reports a coverage trend it is
\* "insufficient_data" with fewer than 2 coverage samples, and otherwise
\* judged on the last 3 samples at most: "improving" exactly when every
\* consecutive difference is positive, "declining" exactly when every one is
\* negative, "stable" in every other case.
C31_TrendOverLastThree ==
    (answer.call = "get_quality_metrics" /\ monitor.iteration_history # <<>>) =>
        LET trend == answer.value.coverage_trend
        IN /\ trend \in {"insufficient_data", "improving", "declining", "stable"}
           /\ trend = "insufficient_data" <=> Len(Samples) < 2
           /\ Len(Samples) >= 2 =>
                 /\ trend = "improving" <=> Rises = Steps
                 /\ trend = "declining" <=> Falls = Steps
                 /\ trend = "stable" <=> (Rises # Steps /\ Falls # Steps)

\* Four samples, a fall followed by two rises: the trend is "improving".
C31_Witness ==
    /\ answer.call = "get_quality_metrics"
    /\ Samples = <<7500, 7000, 7001, 7002>>
    /\ answer.value.coverage_trend = "improving"

\* A zero difference between the last samples: "stable".
C31_WitnessStable ==
    /\ answer.call = "get_quality_metrics"
    /\ Samples = <<7000, 7001, 7001>>
    /\ answer.value.coverage_trend = "stable"

\* Two iterations recorded, one of them without coverage: one sample only.
C31_WitnessInsufficient ==
    /\ answer.call = "get_quality_metrics"
    /\ Len(monitor.iteration_history) = 2
    /\ Samples = <<7000>>
    /\ answer.value.coverage_trend = "insufficient_data"

\* Two iterations reported with their scores and task counts, (70.0, 0.7, 3)
\* and (75.0, 0.8, 5): the snapshot holds the latest coverage and score, the
\* tasks of both, and the trend "improving".
C31_WitnessSnapshot ==
    /\ answer.call = "get_quality_metrics"
    /\ Samples = <<7000, 7500>>
    /\ answer.value.iterations = 2
    /\ answer.value.current_coverage = 7500
    /\ answer.value.current_quality_score = 80
    /\ answer.value.total_tasks_completed = 8
    /\ answer.value.coverage_trend = "improving"

\* ------------------------------------------------------------------ C32
\* s is a prefix of t.
IsPrefix(s, t) == Len(s) <= Len(t) /\ \A i \in 1..Len(s) : s[i] = t[i]

\* C32: whatever method is called, the iteration records already present
\* stay where they are and as they are, every task id keeps every hash it
\* had, and should_continue and get_quality_metrics leave the whole monitor as
\* it is.
C32_OnlyGrows ==
    [][/\ IsPrefix(monitor.iteration_history, monitor'.iteration_history)
       /\ IsPrefix(monitor.coverage_history, monitor'.coverage_history)
       /\ \A t \in DOMAIN monitor.output_hashes :
             /\ t \in DOMAIN monitor'.output_hashes
             /\ Range(monitor.output_hashes[t]) \subseteq Range(monitor'.output_hashes[t])
       /\ answer'.call \in {"should_continue", "get_quality_metrics"} =>
             monitor' = monitor]_vars

\* A caller that does both: two iterations are on record and task1 has been
\* given two different outputs, then get_quality_metrics was called.
C32_Witness ==
    /\ pc = "mixed"
    /\ Len(monitor.iteration_history) = 2
    /\ "task1" \in DOMAIN monitor.output_hashes
    /\ Len(monitor.output_hashes["task1"]) = 2
    /\ answer.call = "get_quality_metrics"

\* ------------------------------------------------------------------ C39
\* The iteration records that carry a coverage value.
WithCoverage ==
    {i \in DOMAIN monitor.iteration_history :
        monitor.iteration_history[i].coverage # NoCoverage}

\* C39: with at least 2 iterations recorded and fewer coverage samples than
\* max_iterations_without_improvement, should_continue returns (true,
\* "quality_improving"), whatever the deltas; an iteration recorded without
\* coverage adds no sample, so the samples are as many as the records that
\* carry coverage and never more than the records.
C39_ShortWindowContinues ==
    /\ Len(Samples) = Cardinality(WithCoverage)
    /\ Len(Samples) <= Len(monitor.iteration_history)
    /\ (/\ answer.call = "should_continue"
        /\ Len(monitor.iteration_history) >= 2
        /\ Cardinality(WithCoverage) < Window) =>
           /\ answer.value.continue = TRUE
           /\ answer.value.reason = "quality_improving"

\* Three iterations, one without coverage, a falling coverage and a window
\* of 3: should_continue says continue.
C39_Witness ==
    /\ answer.call = "should_continue"
    /\ Len(monitor.iteration_history) = 3
    /\ Samples = <<7500, 7000>>
    /\ Window = 3
    /\ monitor.min_coverage_improvement = 5
    /\ answer.value.reason = "quality_improving"


\* ------------------------------------------------------------------ C33
\* The tasks of the running batch whose execute invocation has been
\* dispatched.
Dispatched == {u \in Range(batch) : co[u] \notin {"created", "waiting", "woken"}}

\* C33: within a batch the mutation that starts a task (mark_in_progress)
\* is made for every task of the batch before any execute invocation of the
\* batch is dispatched: no task enters InProgress while an execution of the
\* batch has been dispatched.
C33_StartedBeforeDispatch ==
    [][\A t \in Registered :
          (Status(t) # IN_PROGRESS /\ task_queue'.tasks[t].status = IN_PROGRESS) =>
              Dispatched = {}]_vars

\* Task 2 has just been marked InProgress by its own coroutine while the
\* execution of task 1 is running.
C33_MarkedWhileRunning ==
    /\ pc = "batch"
    /\ batch = <<1, 2>>
    /\ co[1] = "running" /\ co[2] = "running"
    /\ Status(1) = IN_PROGRESS /\ Status(2) = IN_PROGRESS

\* ------------------------------------------------------------------ C34
\* C34: batches never overlap. While a batch is out the loop takes no pass:
\* the batch, the pass counter and the summary stay as they are, and a task
\* outside the batch neither changes status nor is executed, even when it has
\* become ready; the batch ends only when every coroutine of it has returned.
C34_BatchesNeverOverlap ==
    [][pc = "batch" =>
          /\ pc' = "batch" =>
                /\ batch' = batch
                /\ iteration' = iteration
                /\ summary' = summary
                /\ \A u \in Registered \ Range(batch) :
                      /\ task_queue'.tasks[u] = task_queue.tasks[u]
                      /\ exec_calls'[u] = exec_calls[u]
                      /\ co'[u] = "none"
          /\ pc' \in {"loop", "done"} =>
                \A t \in Range(batch) : co[t] = "finished" /\ Status(t) \in Terminal]_vars

\* While task 2 of the batch is still running, task 3 outside the batch has
\* become ready: its only dependency, task 1 of the batch, is Completed.
C34_Witness ==
    /\ entry = "project" /\ pc = "batch"
    /\ batch = <<1, 2>>
    /\ co[1] = "finished" /\ Status(1) = COMPLETED
    /\ co[2] = "running"
    /\ 3 \in Registered /\ DepsOf(3) = {1}
    /\ Status(3) = PENDING /\ co[3] = "none" /\ exec_calls[3] = 0
    /\ 3 \in Range(ReadyTasks)


\* ------------------------------------------------------------------ C35
\* C35: at the start of every pass of the execute_project loop and whenever
\* execute_project has returned, no task is InProgress (every task is
\* Pending, Completed or Failed), and the branch that sleeps to wait for
\* in-progress tasks has never been taken.
C35_NoneInProgressBetweenBatches ==
    /\ slept = FALSE
    /\ (entry = "project" /\ pc \in {"loop", "done"}) =>
           /\ CountStatus(task_queue, IN_PROGRESS) = 0
           /\ \A t \in Registered : Status(t) \in {PENDING, COMPLETED, FAILED}

\* A pass found no ready task after a failure, with a task still Pending:
\* the loop broke off and did not sleep.
C35_Witness ==
    /\ entry = "project" /\ pc = "done"
    /\ iteration >= 2
    /\ \E t \in Registered : Status(t) = FAILED
    /\ \E t \in Registered : Status(t) = PENDING
    /\ ReadyTasks = <<>>
    /\ slept = FALSE


\* ------------------------------------------------------------------ C36
\* The ids of the decomposition and the dependencies it declares for an id.
Declared_ids == {decomposed[i].task_id : i \in DOMAIN decomposed}
DeclaredDeps(t) ==
    UNION {decomposed[i].dependencies : i \in {j \in DOMAIN decomposed :
                                                 decomposed[j].task_id = t}}

\* The ids t depends on through at most k dependency edges.
RECURSIVE Upstream(_, _)
Upstream(t, k) ==
    IF k = 0 THEN {}
    ELSE DeclaredDeps(t) \cup UNION {Upstream(d, k - 1) : d \in DeclaredDeps(t)}
DependsOn(t) == Upstream(t, Len(decomposed))

Acyclic == \A t \in Declared_ids : t \notin DependsOn(t)
AllDepsRegistered == \A t \in Declared_ids : DeclaredDeps(t) \subseteq Declared_ids

\* What C36 assumes, as far as the run has gone: an acyclic decomposition
\* whose dependencies are all registered, a budget of at least one pass per
\* task, and no execution that has failed.
C36_Assumed ==
    /\ entry = "project"
    /\ Acyclic /\ AllDepsRegistered
    /\ max_parallel >= 1
    /\ max_iterations >= Len(decomposed)
    /\ \A t \in Ids : co[t] # "returned_err" /\ FALSE \notin Range(perf_events[t])

\* C36: under these assumptions execute_project eventually returns status
\* "completed" with tasks_completed = tasks_total and tasks_failed = 0, and
\* until then every pass has completed at least one task: at the top of the
\* loop at least as many tasks are Completed as passes were made. The run
\* always returns; what it returns while the assumptions hold is "completed".
C36_EventuallyCompleted ==
    /\ []((pc \in {"loop", "done"} /\ C36_Assumed) =>
             /\ CountStatus(task_queue, COMPLETED) >= iteration
             /\ slept = FALSE
             /\ pc = "done" =>
                   /\ summary.status = "completed"
                   /\ summary.tasks_completed = summary.tasks_total
                   /\ summary.tasks_total = Len(decomposed)
                   /\ summary.tasks_failed = 0)
    /\ <>(pc = "done")

\* A chain of three tasks was completed in three passes with a budget of
\* three.
C36_Witness ==
    /\ C36_Assumed
    /\ decomposed = <<SubTask(1, {}), SubTask(2, {1}), SubTask(3, {2})>>
    /\ max_iterations = 3
    /\ pc = "done"
    /\ iteration = 3
    /\ summary.status = "completed"
    /\ summary.tasks_completed = 3


\* ------------------------------------------------------------------ C37
\* C37: a Failed task never satisfies a dependency. Every task that depends
\* on a Failed task, directly or through other tasks, is Pending and has
\* never been executed, during the run and when execute_project returns, and
\* a run in which a task has Failed returns status "incomplete".
C37_FailedNeverSatisfies ==
    entry = "project" =>
        /\ \A f \in Registered :
              Status(f) = FAILED =>
                  \A t \in Registered :
                      f \in DependsOn(t) =>
                          /\ Status(t) = PENDING
                          /\ exec_calls[t] = 0
                          /\ co[t] = "none"
        /\ (pc = "done" /\ \E f \in Registered : Status(f) = FAILED) =>
              summary.status = "incomplete" /\ summary.tasks_failed >= 1

\* Task 1 failed; task 3 depends on it through task 2, and the run has
\* returned with both still Pending.
C37_Witness ==
    /\ entry = "project" /\ pc = "done"
    /\ decomposed = <<SubTask(1, {}), SubTask(2, {1}), SubTask(3, {2})>>
    /\ Status(1) = FAILED
    /\ Status(2) = PENDING /\ Status(3) = PENDING
    /\ exec_calls[3] = 0
    /\ summary.status = "incomplete"

\* ------------------------------------------------------------------ C38
\* The place of a registered task in insertion order.
AddedBefore(v, u) == AddedAt(v) < AddedAt(u)

\* A ready task outside the batch being run: Pending, every dependency
\* Completed, not selected by the pass in progress (if any).
NotSelected(u) == entry = "project" /\ u \in Range(ReadyTasks) \ Range(batch)

\* The run has returned after the last pass its budget allows.
BudgetSpent == pc = "done" /\ iteration = max_iterations

\* The batch a pass dispatches is the first min(max_parallel, number of ready
\* tasks) entries of get_ready_tasks(), which lists the ready tasks in
\* insertion order; a ready task that was not selected stays Pending and
\* ready until a pass selects it, and no pass selects a task added after it
\* without selecting it too.
FirstReadyInOrder ==
    /\ [](\A i \in 1..(Len(ReadyTasks) - 1) :
             AddedBefore(ReadyTasks[i], ReadyTasks[i + 1]))
    /\ [][(entry = "project" /\ pc = "loop" /\ pc' = "batch") =>
             /\ Len(batch') = IF max_parallel < Len(ReadyTasks)
                              THEN max_parallel ELSE Len(ReadyTasks)
             /\ \A i \in 1..Len(batch') : batch'[i] = ReadyTasks[i]
             /\ \A u \in Range(batch'), v \in Range(ReadyTasks) :
                   AddedBefore(v, u) => v \in Range(batch')]_vars
    /\ [][entry = "project" =>
             \A v \in Range(ReadyTasks) \ Range(batch) :
                 \/ v \in Range(batch')
                 \/ /\ task_queue'.tasks[v].status = PENDING
                    /\ \A d \in DepsOf(v) : task_queue'.tasks[d].status = COMPLETED]_vars

\* C38 as stated: the batch of a pass is the first min(max_parallel, number
\* of ready tasks) entries of get_ready_tasks() in insertion order; ready
\* tasks that are not selected stay Pending and ready, and are selected in a
\* later pass before any task added after them. A run that has returned
\* makes no later pass, so it must not return with a ready task that no pass
\* selected.
C38_SelectedInLaterPass ==
    /\ FirstReadyInOrder
    /\ [](pc = "done" => \A u \in 1..NumTasks : ~NotSelected(u))

\* C38 within the iteration budget: the batch of a pass is the first
\* min(max_parallel, number of ready tasks) entries of get_ready_tasks() in
\* insertion order; ready tasks that are not selected stay Pending and ready,
\* no pass selects a task added after them without selecting them, and each
\* of them is selected in a later pass unless the run returns first because
\* it has made max_iterations passes, the only way a run returns with a
\* ready task unselected. A task stops being ready and unselected only by
\* entering a batch (the last conjunct of FirstReadyInOrder), so "from some
\* point on it is never ready and unselected" says that a pass selected it.
C38_SelectedWhileBudgetLasts ==
    /\ FirstReadyInOrder
    /\ []((pc = "done" /\ \E u \in 1..NumTasks : NotSelected(u)) => BudgetSpent)
    /\ \A u \in 1..NumTasks : <>[](~NotSelected(u) \/ BudgetSpent)

\* Three independent tasks, one permit: the first pass took task 1 and left
\* tasks 2 and 3 ready, the second pass has taken task 2 and left task 3.
C38_Witness ==
    /\ entry = "project" /\ pc = "batch"
    /\ max_parallel = 1
    /\ iteration = 2
    /\ task_queue.order = <<1, 2, 3>>
    /\ \A t \in 1..3 : DepsOf(t) = {}
    /\ Status(1) \in Terminal
    /\ batch = <<2>>
    /\ Status(3) = PENDING /\ exec_calls[3] = 0


\* ------------------------------------------------------------------ C40
\* The task set of the DAG and, for a task of it, its dependencies that are
\* in the task set.
DagSet == DagIds(decomposed)
InSetDeps(t) == DagTask(decomposed, t).dependencies \cap DagSet

\* The tasks t depends on through at most k edges of the DAG.
RECURSIVE DagUpstream(_, _)
DagUpstream(t, k) ==
    IF k = 0 THEN {}
    ELSE InSetDeps(t) \cup UNION {DagUpstream(d, k - 1) : d \in InSetDeps(t)}
Above(t) == DagUpstream(t, Cardinality(DagSet))

\* t is on a dependency cycle, or depends on a task that is.
OnCycle(t) == t \in Above(t)
OnOrBelowCycle(t) == OnCycle(t) \/ \E c \in Above(t) : OnCycle(c)

\* The batches returned, the tasks in them, and the batch a task is in.
Batches == answer.value
Batched == UNION {Range(Batches[i]) : i \in DOMAIN Batches}
BatchesWith(t) == {i \in DOMAIN Batches : t \in Range(Batches[i])}

\* C40: get_execution_order always returns. No batch is empty and no task
\* is listed twice; a task is in a strictly later batch than each of its
\* dependencies that is in the task set; the tasks left out are exactly those
\* on a dependency cycle or downstream of one, so for an acyclic task set the
\* batches partition the task ids; {t1:[], t2:[t1], t3:[t1], t4:[t2,t3]}
\* gives [t1], {t2, t3}, [t4].
C40_ExecutionOrder ==
    /\ [](/\ Len(dag.batches) + Cardinality(dag.remaining) <= Cardinality(DagSet)
          /\ (pc = "dag_done" /\ answer.call = "get_execution_order") =>
                /\ \A i \in DOMAIN Batches :
                      /\ Batches[i] # <<>>
                      /\ \A j, k \in DOMAIN Batches[i] :
                            Batches[i][j] = Batches[i][k] => j = k
                /\ \A t \in Batched : Cardinality(BatchesWith(t)) = 1
                /\ Batched = {t \in DagSet : ~OnOrBelowCycle(t)}
                /\ (\A t \in DagSet : ~OnCycle(t)) => Batched = DagSet
                /\ \A t \in Batched :
                      \A d \in InSetDeps(t) :
                          /\ d \in Batched
                          /\ \A i \in BatchesWith(d), j \in BatchesWith(t) : i < j
                /\ decomposed = ScenarioA =>
                      /\ Len(Batches) = 3
                      /\ Batches[1] = <<1>>
                      /\ Range(Batches[2]) = {2, 3}
                      /\ Batches[3] = <<4>>)
    /\ <>(pc = "dag_done")

\* The four tasks of the example are in three batches, t3 listed before t2
\* in the second.
C40_Witness ==
    /\ pc = "dag_done"
    /\ decomposed = ScenarioA
    /\ answer.call = "get_execution_order"
    /\ answer.value = <<<<1>>, <<3, 2>>, <<4>>>>

\* Tasks 1 and 2 depend on each other and task 3 on nothing: only task 3 is
\* in the order.
C40_WitnessCycle ==
    /\ pc = "dag_done"
    /\ decomposed = <<SubTask(1, {2}), SubTask(2, {1}), SubTask(3, {})>>
    /\ answer.call = "get_execution_order"
    /\ answer.value = <<<<3>>>>

\* A task below a cycle is left out with it.
C40_WitnessDownstream ==
    /\ pc = "dag_done"
    /\ decomposed = <<SubTask(1, {1}), SubTask(2, {1}), SubTask(3, {})>>
    /\ answer.call = "get_execution_order"
    /\ answer.value = <<<<3>>>>

====
